---- MODULE Spec2Model ----
(***************************************************************************)
(* Judge / revise convergence loop of the storybook generator.             *)
(*                                                                         *)
(*   src/judge.py               parser, evaluators, aggregators            *)
(*   src/revisor.py             deterministic patch applier, fallbacks     *)
(*   src/services/generator.py  StoryGenerator.generate                    *)
(*                                                                         *)
(* Text is a sequence of one-character strings.  A model reply is a        *)
(* sequence of lexical tokens: whitespace " ", "FENCE_JSON" and "FENCE"    *)
(* (the two code fence markers), the braces "{" and "}", a prose character *)
(* "p", member tokens standing for one `"key": value` member of a JSON     *)
(* object, and scalar tokens standing for a complete non-object JSON       *)
(* document.                                                               *)
(***************************************************************************)
EXTENDS Integers, Sequences, FiniteSets, TLC

VARIABLES
    response_text,  \* parse_judge_response: the reply handed to the parser
    parsed,         \* parse_judge_response: what the call produced
    ppc,            \* parser harness position: "call" | "returned" |
                    \*                          "changed"
    default_response,   \* the dict object the module holds as
                    \* DEFAULT_JUDGE_RESPONSE, passed as default
    aliased,        \* the keys of parsed.data whose values are the very
                    \* objects held by default_response
    roster,         \* aggregator: "none" | "story" | "brainstorm"
    tasks,          \* aggregator: the four evaluator calls of asyncio.gather
    jresult,        \* aggregator: [st, exc, verdict] of the running/last call
    rpc,            \* revise_story: "idle" | "fallback" | "smoothing" |
                    \*               "returned" | "raised"
    rargs,          \* revise_story: its arguments
    patched_story,  \* revise_story: local patched_story, the value returned
    patch_report,   \* revise_story: local patch_report
    rcalls,         \* revise_story: the model calls it issued, in order
    pc,             \* generate: the call it is waiting on, or "done"
    sanitized_input,    \* generate: local sanitized_input
    brainstorm_result,  \* generate: local brainstorm_result
    r,              \* generate: index of the brainstorm loop
    plan_response,  \* generate: local plan_response
    story,          \* generate: local story
    final_story,    \* generate: local final_story
    i,              \* generate: index of the refinement loop
    audio_path,     \* generate: local audio_path
    result,         \* generate: the dict it returned
    execution_log,  \* generate: self.execution_log, also the log of result
    asset_story,    \* generate: the text given to the asset call it awaits
    response,       \* generate_questions: the reply of its call_model
    questions,      \* generate_questions: the list it returned
    qpc,            \* generate_questions harness position
    last_reply,     \* history: the text the last generation call_model returned
    first_done,     \* history: the evaluator of the gather that completed
                    \*          first (0: none yet)
    interview_sessions, \* app: the dict interview_sessions of each worker
    stories,        \* app: the committed Story rows, oldest first
    issued,         \* app: the session ids uuid4 has produced
    http,           \* history: the last request served and its response
    LOCKED_REVISED_PROMPT,  \* storybook: the module global of the process
    img,            \* storybook: the runs of generate_story_images
    image_requests  \* history: the image requests sent, with their prompts

parseVars == <<response_text, parsed, ppc, default_response, aliased>>
judgeVars == <<roster, tasks, jresult>>
reviseVars == <<rpc, rargs, patched_story, patch_report, rcalls>>
genVars == <<pc, sanitized_input, brainstorm_result, r, plan_response, story,
             final_story, i, audio_path, result, execution_log, asset_story>>

askVars == <<response, questions, qpc>>
appVars == <<interview_sessions, stories, issued, http>>
imageVars == <<LOCKED_REVISED_PROMPT, img, image_requests>>

vars == <<response_text, parsed, ppc, default_response, aliased,
          roster, tasks, jresult,
          rpc, rargs, patched_story, patch_report, rcalls,
          pc, sanitized_input, brainstorm_result, r, plan_response, story,
          final_story, i, audio_path, result, execution_log, asset_story,
          response, questions, qpc, last_reply, first_done,
          interview_sessions, stories, issued, http,
          LOCKED_REVISED_PROMPT, img, image_requests>>

-----------------------------------------------------------------------------
(* Bounds of the model *)

MaxRawLen == 4
MaxPatches == 5
MaxMembers == 2
MaxAppends == 2
MaxLines == 3

-----------------------------------------------------------------------------
(* Python str helpers *)

Max(a, b) == IF a >= b THEN a ELSE b

RECURSIVE LStrip(_)
LStrip(s) == IF s # <<>> /\ Head(s) = " " THEN LStrip(Tail(s)) ELSE s

RECURSIVE RStrip(_)
RStrip(s) ==
    IF s # <<>> /\ s[Len(s)] = " " THEN RStrip(SubSeq(s, 1, Len(s) - 1)) ELSE s

\* str.strip()
Strip(s) == RStrip(LStrip(s))

\* str.replace(tok, ""): every occurrence of the marker removed
RECURSIVE RemoveAll(_, _)
RemoveAll(s, tok) ==
    IF s = <<>> THEN <<>>
    ELSE IF Head(s) = tok THEN RemoveAll(Tail(s), tok)
    ELSE <<Head(s)>> \o RemoveAll(Tail(s), tok)

\* str.find(c): first index (1-based), 0 when absent
RECURSIVE FindFrom(_, _, _)
FindFrom(s, c, at) ==
    IF at > Len(s) THEN 0 ELSE IF s[at] = c THEN at ELSE FindFrom(s, c, at + 1)

Find(s, c) == FindFrom(s, c, 1)

\* str.rfind(c): last index (1-based), 0 when absent
RECURSIVE RFindFrom(_, _, _)
RFindFrom(s, c, at) ==
    IF at < 1 THEN 0 ELSE IF s[at] = c THEN at ELSE RFindFrom(s, c, at - 1)

RFind(s, c) == RFindFrom(s, c, Len(s))

-----------------------------------------------------------------------------
(* Decoded JSON values: one record shape for every type.                   *)
(*   ty  "int" | "float" | "bool" | "null" | "str" | "list" | "obj"        *)
(*   n   the number (its integer part for a float, 0/1 for a bool)         *)
(*   s   the characters of a string                                        *)
(*   l   the elements of a list, or the members [k, v] of an object        *)

JInt(n)   == [ty |-> "int",   n |-> n, s |-> <<>>, l |-> <<>>]
JFloat(n) == [ty |-> "float", n |-> n, s |-> <<>>, l |-> <<>>]
JBool(n)  == [ty |-> "bool",  n |-> n, s |-> <<>>, l |-> <<>>]
JNull     == [ty |-> "null",  n |-> 0, s |-> <<>>, l |-> <<>>]
JStr(s)   == [ty |-> "str",   n |-> 0, s |-> s,    l |-> <<>>]
JList(l)  == [ty |-> "list",  n |-> 0, s |-> <<>>, l |-> l]
JObj(l)   == [ty |-> "obj",   n |-> 0, s |-> <<>>, l |-> l]

KV(k, v) == [k |-> k, v |-> v]

\* dict.get(key, default): the last member named key wins, as in json.loads
RECURSIVE GetFrom(_, _, _, _)
GetFrom(ms, key, dflt, at) ==
    IF at < 1 THEN dflt
    ELSE IF ms[at].k = key THEN ms[at].v
    ELSE GetFrom(ms, key, dflt, at - 1)

DictGet(obj, key, dflt) == GetFrom(obj.l, key, dflt, Len(obj.l))

HasKey(obj, key) == \E at \in 1..Len(obj.l) : obj.l[at].k = key

\* str(value)
PyStr(v) ==
    CASE v.ty = "str"   -> v.s
      [] v.ty = "int"   -> <<ToString(v.n)>>
      [] v.ty = "float" -> <<ToString(v.n), ".", "5">>
      [] v.ty = "bool"  -> IF v.n = 1 THEN <<"T", "r", "u", "e">>
                                      ELSE <<"F", "a", "l", "s", "e">>
      [] v.ty = "null"  -> <<"N", "o", "n", "e">>
      [] v.ty = "list"  -> <<"[", "]">>
      [] v.ty = "obj"   -> <<"{", "}">>

-----------------------------------------------------------------------------
(* The replies of the model, token by token *)

ErrCritique == <<"Error: Judge failed to produce valid JSON.">>

\* violations the evaluators may report (decoded list elements)
VItem(q, why, f) ==
    JObj(<<KV("quote", JStr(q)), KV("reason", JStr(why)), KV("fix", JStr(f))>>)

\* text carried by a member token: `"key": value`
Member(tok) ==
    CASE tok = "score:1"     -> KV("score", JInt(1))
      [] tok = "score:2"     -> KV("score", JInt(2))
      [] tok = "score:3"     -> KV("score", JInt(3))
      [] tok = "score:4"     -> KV("score", JInt(4))
      [] tok = "score:5"     -> KV("score", JInt(5))
      [] tok = "score:7"     -> KV("score", JInt(7))
      [] tok = "score:0"     -> KV("score", JInt(0))
      [] tok = "score:4.5"   -> KV("score", JFloat(4))
      [] tok = "score:null"  -> KV("score", JNull)
      [] tok = "score:'hi'"  -> KV("score", JStr(<<"h", "i">>))
      [] tok = "score:'4'"   -> KV("score", JStr(<<"4">>))
      [] tok = "critique:'c'" -> KV("critique", JStr(<<"c">>))
      [] tok = "metrics:{}"  -> KV("metrics", JObj(<<>>))
      [] tok = "violations:null" -> KV("violations", JNull)
      [] tok = "violations:{}"   -> KV("violations", JObj(<<>>))
      [] tok = "violations:[]"   -> KV("violations", JList(<<>>))
      [] tok = "violations:[a>b]" ->
            KV("violations", JList(<<VItem(<<"a">>, <<"r">>, <<"b">>)>>))
      [] tok = "violations:[ a>b ]" ->
            KV("violations",
               JList(<<VItem(<<" ", "a">>, <<"r", " ">>, <<"b", " ">>)>>))
      [] tok = "violations:[c>a]" ->
            KV("violations", JList(<<VItem(<<"c">>, <<"r">>, <<"a">>)>>))
      [] tok = "violations:[a>a]" ->
            KV("violations", JList(<<VItem(<<"a">>, <<"r">>, <<"a">>)>>))
      [] tok = "violations:[ a>a ]" ->
            KV("violations",
               JList(<<VItem(<<" ", "a">>, <<"r">>, <<"a", " ">>)>>))
      [] tok = "violations:[a> ,b>c]" ->
            KV("violations", JList(<<VItem(<<"a">>, <<"r">>, <<" ">>),
                                     VItem(<<"b">>, <<"r">>, <<"c">>)>>))
      [] tok = "violations:[a>b,b>c]" ->
            KV("violations", JList(<<VItem(<<"a">>, <<"r">>, <<"b">>),
                                     VItem(<<"b">>, <<"r">>, <<"c">>)>>))
      [] tok = "violations:[a>b,a>b]" ->
            KV("violations", JList(<<VItem(<<"a">>, <<"r">>, <<"b">>),
                                     VItem(<<"a">>, <<"r">>, <<"b">>)>>))
      [] tok = "violations:[7,a>b,null]" ->
            KV("violations", JList(<<JInt(7),
                                     VItem(<<"a">>, <<"r">>, <<"b">>),
                                     JNull>>))
      [] tok = "violations:[{quote:7,fix:null}]" ->
            KV("violations",
               JList(<<JObj(<<KV("quote", JInt(7)), KV("fix", JNull)>>)>>))
      [] tok = "violations:'ab'" -> KV("violations", JStr(<<"a", "b">>))
      [] tok = "violations:[{quote:'a',fix:true,x:1},[],c>a]" ->
            KV("violations",
               JList(<<JObj(<<KV("quote", JStr(<<"a">>)), KV("fix", JBool(1)),
                              KV("x", JInt(1))>>),
                       JList(<<>>),
                       VItem(<<"c">>, <<"r">>, <<"a">>)>>))

MemberTokens ==
    {"score:1", "score:2", "score:3", "score:4", "score:5", "score:7",
     "score:0", "score:4.5", "score:null", "score:'hi'", "score:'4'",
     "critique:'c'", "metrics:{}",
     "violations:null", "violations:{}", "violations:[]", "violations:[a>b]",
     "violations:[ a>b ]", "violations:[c>a]", "violations:[a>a]",
     "violations:[ a>a ]", "violations:[a> ,b>c]",
     "violations:[a>b,b>c]", "violations:[a>b,a>b]",
     "violations:[7,a>b,null]",
     "violations:[{quote:7,fix:null}]", "violations:'ab'",
     "violations:[{quote:'a',fix:true,x:1},[],c>a]"}

\* text that is a complete JSON document but not an object
Scalar(tok) ==
    CASE tok = "5"    -> JInt(5)
      [] tok = "null" -> JNull
      [] tok = "[]"   -> JList(<<>>)

ScalarTokens == {"5", "null", "[]"}

\* a reply of the model: None, or text
NoneReply == [none |-> TRUE, text |-> <<>>]
Reply(toks) == [none |-> FALSE, text |-> toks]

-----------------------------------------------------------------------------
(* json.loads on the sliced text: whitespace around the document is        *)
(* skipped; an object is "{" members "}"; anything else is a decode error. *)

RECURSIVE MembersOf(_)
MembersOf(toks) ==
    IF toks = <<>> THEN <<>>
    ELSE IF Head(toks) = " " THEN MembersOf(Tail(toks))
    ELSE <<Member(Head(toks))>> \o MembersOf(Tail(toks))

JsonLoads(toks) ==
    LET t == Strip(toks)
        n == Len(t)
    IN  IF n >= 2 /\ t[1] = "{" /\ t[n] = "}"
           /\ \A at \in 2..(n - 1) : t[at] \in MemberTokens \cup {" "}
        THEN [ok |-> TRUE, val |-> JObj(MembersOf(SubSeq(t, 2, n - 1)))]
        ELSE IF n = 1 /\ t[1] \in ScalarTokens
        THEN [ok |-> TRUE, val |-> Scalar(t[1])]
        ELSE [ok |-> FALSE, val |-> JNull]

-----------------------------------------------------------------------------
(* src/judge.py: the parser *)

\* a default that passes every threshold
DEFAULT_JUDGE_RESPONSE_FailOpen ==
    [score |-> JInt(5), metrics |-> JObj(<<>>), critique |-> JStr(ErrCritique),
     violations |-> <<>>]

DEFAULT_JUDGE_RESPONSE ==
    [score |-> JInt(1), metrics |-> JObj(<<>>), critique |-> JStr(ErrCritique),
     violations |-> <<>>]

extract_json_object(text) ==
    LET cleaned == Strip(RemoveAll(RemoveAll(Strip(text), "FENCE_JSON"), "FENCE"))
        start == Find(cleaned, "{")
        end == RFind(cleaned, "}")
    IN  IF start # 0 /\ end # 0 /\ end > start
        THEN SubSeq(cleaned, start, end)
        ELSE cleaned

\* a loop that keeps an element that is no mapping as an empty violation
RECURSIVE NormViolations_KeepsAll(_)
NormViolations_KeepsAll(l) ==
    IF l = <<>> THEN <<>>
    ELSE LET v == Head(l)
         IN  (IF v.ty = "obj"
              THEN <<[quote  |-> Strip(PyStr(DictGet(v, "quote", JStr(<<>>)))),
                      reason |-> Strip(PyStr(DictGet(v, "reason", JStr(<<>>)))),
                      fix    |-> Strip(PyStr(DictGet(v, "fix", JStr(<<>>))))]>>
              ELSE <<[quote |-> <<>>, reason |-> <<>>, fix |-> <<>>]>>)
             \o NormViolations_KeepsAll(Tail(l))

\* the loop over data["violations"]: mappings kept, each field str().strip()
RECURSIVE NormViolations(_)
NormViolations(l) ==
    IF l = <<>> THEN <<>>
    ELSE LET v == Head(l)
         IN  (IF v.ty = "obj"
              THEN <<[quote  |-> Strip(PyStr(DictGet(v, "quote", JStr(<<>>)))),
                      reason |-> Strip(PyStr(DictGet(v, "reason", JStr(<<>>)))),
                      fix    |-> Strip(PyStr(DictGet(v, "fix", JStr(<<>>))))]>>
              ELSE <<>>)
             \o NormViolations(Tail(l))

\* the body of the try block: exc names the exception it ends with
ParseBody(resp) ==
    IF resp.none
    THEN [exc |-> "AttributeError", data |-> DEFAULT_JUDGE_RESPONSE]
    ELSE LET dec == JsonLoads(extract_json_object(resp.text))
         IN  IF ~dec.ok
             THEN [exc |-> "JSONDecodeError", data |-> DEFAULT_JUDGE_RESPONSE]
             ELSE IF dec.val.ty # "obj"
             THEN [exc |-> "AttributeError", data |-> DEFAULT_JUDGE_RESPONSE]
             ELSE LET d == dec.val
                      viol == DictGet(d, "violations", JList(<<>>))
                  IN  [exc |-> "none",
                       data |->
                         [score |-> DictGet(d, "score", JInt(1)),
                          metrics |-> DictGet(d, "metrics", JObj(<<>>)),
                          critique |-> DictGet(d, "critique", JStr(<<>>)),
                          violations |->
                            IF viol.ty = "list" THEN NormViolations(viol.l)
                            ELSE <<>>]]

\* a handler that catches decode errors only
ParseCatches_DecodeErrorOnly(exc) == exc = "JSONDecodeError"

\* `except Exception`
ParseCatches(exc) == TRUE

parse_judge_response(resp, default) ==
    LET body == ParseBody(resp)
    IN  IF body.exc = "none" THEN [raised |-> FALSE, data |-> body.data]
        ELSE IF ParseCatches(body.exc) THEN [raised |-> FALSE, data |-> default]
        ELSE [raised |-> TRUE, data |-> default]

-----------------------------------------------------------------------------
(* The parser on its own: every reply of at most MaxRawLen tokens *)

ParseTokens ==
    {" ", "FENCE_JSON", "FENCE", "{", "}", "p", "5",
     "score:5", "score:7", "score:null", "violations:[7,a>b,null]"}

RepliesUpTo(n) ==
    {NoneReply} \cup
    UNION {{Reply(t) : t \in [1..k -> ParseTokens]} : k \in 0..n}

NoResult == [raised |-> FALSE, data |-> DEFAULT_JUDGE_RESPONSE]

\* the members of the objects whose violations are normalised
ObjectTokens ==
    {"score:3", "violations:null", "violations:{}", "violations:'ab'",
     "violations:[]", "violations:[a>b]", "violations:[ a>b ]",
     "violations:[a>b,b>c]", "violations:[7,a>b,null]",
     "violations:[{quote:7,fix:null}]",
     "violations:[{quote:'a',fix:true,x:1},[],c>a]"}

\* every reply that is one JSON object of at most n of these members
ObjectsUpTo(n) ==
    UNION {{Reply(<<"{">> \o t \o <<"}">>) : t \in [1..k -> ObjectTokens]} :
           k \in 0..n}

\* the values of a verdict that are mutable objects
MutableParts == {"metrics", "violations"}

\* the keys under which the returned dict holds the objects of dflt itself:
\* dict(default) copies the top level only, json.loads builds new objects
SharedParts(resp, dflt) ==
    IF ParseBody(resp).exc = "none" THEN {} ELSE MutableParts

\* the evaluators pass the module's DEFAULT_JUDGE_RESPONSE as default_response
ParseCall ==
    /\ ppc = "call"
    /\ parsed' = parse_judge_response(response_text, default_response)
    /\ aliased' = SharedParts(response_text, default_response)
    /\ ppc' = "returned"
    /\ UNCHANGED <<response_text, default_response>>

\* the replies of a sequence of parser calls
ShareReplies ==
    {NoneReply, Reply(<<"p">>), Reply(<<"{", "score:5", "}">>),
     Reply(<<"{", "violations:[a>b]", "}">>), Reply(<<"5">>)}

\* the violations a caller adds to a verdict it was given
AddedViolations ==
    {[quote |-> <<"a">>, reason |-> <<"r">>, fix |-> <<"b">>],
     [quote |-> <<"c">>, reason |-> <<"r">>, fix |-> <<"a">>]}

\* the caller appends to the violations list of the verdict it was given; a
\* list that is the default's own changes for every holder
CallerAppend ==
    /\ ppc \in {"returned", "changed"}
    /\ Len(parsed.data.violations) < MaxAppends
    /\ \E v \in AddedViolations :
          /\ parsed' = [parsed EXCEPT !.data.violations = Append(@, v)]
          /\ default_response' =
                IF "violations" \in aliased
                THEN [default_response EXCEPT !.violations = Append(@, v)]
                ELSE default_response
    /\ ppc' = "changed"
    /\ UNCHANGED <<response_text, aliased>>

\* the next reply is handed to the parser
NextReply ==
    /\ ppc \in {"returned", "changed"}
    /\ response_text' \in ShareReplies
    /\ ppc' = "call"
    /\ UNCHANGED <<parsed, default_response, aliased>>

-----------------------------------------------------------------------------
(* src/judge.py: int(score) *)

DigitChars == {"0", "1", "2", "3", "4", "5", "6", "7", "8", "9"}

DigitVal(c) ==
    CASE c = "0" -> 0 [] c = "1" -> 1 [] c = "2" -> 2 [] c = "3" -> 3
      [] c = "4" -> 4 [] c = "5" -> 5 [] c = "6" -> 6 [] c = "7" -> 7
      [] c = "8" -> 8 [] c = "9" -> 9

RECURSIVE DigitsVal(_, _)
DigitsVal(s, acc) ==
    IF s = <<>> THEN acc ELSE DigitsVal(Tail(s), 10 * acc + DigitVal(Head(s)))

\* int(x): numbers truncate, digit strings parse, anything else raises
PyInt(v) ==
    CASE v.ty \in {"int", "float", "bool"} -> [exc |-> "none", n |-> v.n]
      [] v.ty = "str" ->
            LET t == Strip(v.s)
            IN  IF t # <<>> /\ \A k \in 1..Len(t) : t[k] \in DigitChars
                THEN [exc |-> "none", n |-> DigitsVal(t, 0)]
                ELSE [exc |-> "ValueError", n |-> 0]
      [] OTHER -> [exc |-> "TypeError", n |-> 0]

-----------------------------------------------------------------------------
(* src/judge.py: aggregation and patch list *)

StoryAxes == <<"safety", "comprehensibility", "writing", "thematic">>

BrainstormAxes ==
    <<"brainstorm_concreteness", "brainstorm_uniqueness",
      "brainstorm_sensory", "brainstorm_safety">>

NAxes == Len(StoryAxes)

\* the violations of one judge, as patches
RECURSIVE PatchesOf(_, _)
PatchesOf(judge_name, vs) ==
    IF vs = <<>> THEN <<>>
    ELSE LET v == Head(vs)
             quote == Strip(v.quote)
             fix == Strip(v.fix)
             reason == Strip(v.reason)
         IN  (IF quote # <<>> /\ fix # <<>>
              THEN <<[judge |-> judge_name, quote |-> quote,
                      reason |-> reason, fix |-> fix]>>
              ELSE <<>>)
             \o PatchesOf(judge_name, Tail(vs))

\* details: the sequence of [name, res] in the order the dict was built
RECURSIVE collect_all_patches(_)
collect_all_patches(details) ==
    IF details = <<>> THEN <<>>
    ELSE PatchesOf(Head(details).name, Head(details).res.violations)
         \o collect_all_patches(Tail(details))

\* a filter that keeps a patch whose fix repeats its quote
KeepPatch_NonEmptyOnly(p) == p.fix # <<>> /\ p.quote # <<>>

\* the condition of the list comprehension that follows collect_all_patches
KeepPatch(p) ==
    p.fix # <<>> /\ p.quote # <<>> /\ Strip(p.fix) # Strip(p.quote)

\* the patches of ps whose quote and fix no earlier patch has
RECURSIVE DedupFrom(_, _)
DedupFrom(ps, seen) ==
    IF ps = <<>> THEN <<>>
    ELSE IF <<Head(ps).quote, Head(ps).fix>> \in seen
    THEN DedupFrom(Tail(ps), seen)
    ELSE <<Head(ps)>>
         \o DedupFrom(Tail(ps), seen \cup {<<Head(ps).quote, Head(ps).fix>>})

\* a list comprehension that also drops repeated quote/fix pairs
FilterPatches_Dedup(ps) == DedupFrom(SelectSeq(ps, KeepPatch), {})

\* the list comprehension itself
FilterPatches(ps) == SelectSeq(ps, KeepPatch)

\* a pass rule that holds safety to the threshold of the other axes
StoryPass_SafetyThreshold(s_score, c_score, w_score, t_score) ==
    s_score >= 4 /\ c_score >= 4 /\ w_score >= 4 /\ t_score >= 4

\* PASS RULE of comprehensive_judge
StoryPass(s_score, c_score, w_score, t_score) ==
    s_score = 5 /\ c_score >= 4 /\ w_score >= 4 /\ t_score >= 4

\* a pass rule with the uniqueness threshold lowered to 3
BrainstormPass_Uniqueness3(conc_score, uniq_score, sens_score, safe_score) ==
    safe_score >= 4 /\ conc_score >= 4 /\ uniq_score >= 3 /\ sens_score >= 4

\* all_pass of brainstorm_comprehensive_judge
BrainstormPass(conc_score, uniq_score, sens_score, safe_score) ==
    safe_score >= 4 /\ conc_score >= 4 /\ uniq_score >= 4 /\ sens_score >= 4

NoVerdict ==
    [pass |-> FALSE, sum |-> 0, n |-> 0, details |-> <<>>, patches |-> <<>>]

\* details built in the order the evaluators completed: the result of the
\* evaluator that completed first stands under the first axis name
Details_CompletionOrder(axes, res) ==
    LET from(k) == IF first_done = 0 THEN k
                   ELSE IF k = 1 THEN first_done
                   ELSE IF k = first_done THEN 1 ELSE k
    IN  [k \in 1..NAxes |-> [name |-> axes[k], res |-> res[from(k)]]]

Details(axes, res) == [k \in 1..NAxes |-> [name |-> axes[k], res |-> res[k]]]

\* what follows the gather: res are the four parsed verdicts in roster order.
\* average_score is sum / n.
Aggregate(which, res) ==
    LET axes == IF which = "story" THEN StoryAxes ELSE BrainstormAxes
        details == Details(axes, res)
        ints == [k \in 1..NAxes |-> PyInt(res[k].score)]
        bad == {k \in 1..NAxes : ints[k].exc # "none"}
        sc == [k \in 1..NAxes |-> ints[k].n]
    IN  IF bad # {}
        THEN [exc |-> ints[CHOOSE k \in bad : \A m \in bad : k <= m].exc,
              verdict |-> NoVerdict]
        ELSE [exc |-> "none",
              verdict |->
                [pass |-> IF which = "story"
                          THEN StoryPass(sc[1], sc[2], sc[3], sc[4])
                          ELSE BrainstormPass(sc[1], sc[2], sc[3], sc[4]),
                 sum |-> sc[1] + sc[2] + sc[3] + sc[4],
                 n |-> NAxes,
                 details |-> details,
                 patches |-> FilterPatches(collect_all_patches(details))]]

-----------------------------------------------------------------------------
(* One aggregator call: asyncio.gather over the four evaluators.  Each     *)
(* evaluator awaits call_model in a thread and parses the reply; the       *)
(* gather returns once all four are done and raises as soon as one raises. *)

NoTask ==
    [st |-> "none", arg |-> <<>>, resp_text |-> NoneReply,
     res |-> DEFAULT_JUDGE_RESPONSE]

NoTasks == [k \in 1..NAxes |-> NoTask]

IdleResult == [st |-> "idle", exc |-> "none", verdict |-> NoVerdict]

\* an aggregator that hands the first evaluator the artifact less its first
\* character
JudgeStart_PerAxis(which, artifact) ==
    /\ roster' = which
    /\ tasks' = [k \in 1..NAxes |->
                    [st |-> "pending",
                     arg |-> IF k = 1 /\ artifact # <<>> THEN Tail(artifact)
                             ELSE artifact,
                     resp_text |-> NoneReply,
                     res |-> DEFAULT_JUDGE_RESPONSE]]
    /\ jresult' = [st |-> "running", exc |-> "none", verdict |-> NoVerdict]

\* comprehensive_judge(story) / brainstorm_comprehensive_judge(brainstorm):
\* the four evaluator coroutines are created with the same argument
JudgeStart(which, artifact) ==
    /\ roster' = which
    /\ tasks' = [k \in 1..NAxes |->
                    [st |-> "pending", arg |-> artifact,
                     resp_text |-> NoneReply,
                     res |-> DEFAULT_JUDGE_RESPONSE]]
    /\ jresult' = [st |-> "running", exc |-> "none", verdict |-> NoVerdict]

Obj(members) == Reply(<<"{">> \o members \o <<"}">>)

\* the replies the evaluators give to one aggregator call
JudgeReplies ==
    {Obj(<<"score:1", "violations:[c>a]">>),
     Obj(<<"score:2", "violations:[a>b,b>c]">>),
     Obj(<<"score:3", "violations:[ a>a ]">>),
     Obj(<<"score:4", "violations:[a> ,b>c]">>),
     Obj(<<"score:5">>), Obj(<<"score:7">>), Obj(<<"score:null">>),
     Obj(<<"violations:[a>b,a>b]">>), Reply(<<"p">>)}

\* the replies the evaluators give within generate
GenReplies ==
    {Obj(<<"score:5">>), Obj(<<"score:4", "violations:[a>b]">>),
     Obj(<<"score:3", "violations:[c>a]">>)}

\* the replies of the runs checked for termination
LiveReplies == {Obj(<<"score:5">>), Obj(<<"score:3", "violations:[c>a]">>)}

\* parse_judge_response(reply, DEFAULT_JUDGE_RESPONSE) for each of these
\* replies, evaluated once
ParsedReply ==
    [reply \in JudgeReplies \cup GenReplies \cup LiveReplies |->
        parse_judge_response(reply, DEFAULT_JUDGE_RESPONSE)]

\* an evaluator's outcome when call_model returned reply
EvalDone(artifact, reply) ==
    LET p == ParsedReply[reply]
    IN  IF p.raised
        THEN [st |-> "raised", arg |-> artifact, resp_text |-> reply,
              res |-> DEFAULT_JUDGE_RESPONSE]
        ELSE [st |-> "done", arg |-> artifact, resp_text |-> reply,
              res |-> p.data]

\* a wait that goes on with the first evaluator that completes
Gathered_FirstCompleted(which, ts) ==
    IF \E k \in 1..NAxes : ts[k].st = "raised"
    THEN [st |-> "raised", exc |-> "Exception", verdict |-> NoVerdict]
    ELSE IF \E k \in 1..NAxes : ts[k].st = "done"
    THEN LET a == Aggregate(which, [k \in 1..NAxes |-> ts[k].res])
         IN  [st |-> IF a.exc = "none" THEN "returned" ELSE "raised",
              exc |-> a.exc, verdict |-> a.verdict]
    ELSE [st |-> "running", exc |-> "none", verdict |-> NoVerdict]

\* gather: how the awaiting aggregator goes on once the tasks are as in ts
Gathered(which, ts) ==
    IF \E k \in 1..NAxes : ts[k].st = "raised"
    THEN [st |-> "raised", exc |-> "Exception", verdict |-> NoVerdict]
    ELSE IF \A k \in 1..NAxes : ts[k].st = "done"
    THEN LET a == Aggregate(which, [k \in 1..NAxes |-> ts[k].res])
         IN  [st |-> IF a.exc = "none" THEN "returned" ELSE "raised",
              exc |-> a.exc, verdict |-> a.verdict]
    ELSE [st |-> "running", exc |-> "none", verdict |-> NoVerdict]

\* call_model of evaluator k returns reply; the evaluator parses it
EvalReturn(k, reply) ==
    /\ jresult.st = "running"
    /\ tasks[k].st = "pending"
    /\ tasks' = [tasks EXCEPT ![k] = EvalDone(tasks[k].arg, reply)]
    /\ jresult' = Gathered(roster, tasks')
    /\ UNCHANGED roster

\* call_model of evaluator k raises (transport or API failure)
EvalRaise(k) ==
    /\ jresult.st = "running"
    /\ tasks[k].st = "pending"
    /\ tasks' = [tasks EXCEPT ![k].st = "raised"]
    /\ jresult' = Gathered(roster, tasks')
    /\ UNCHANGED roster

-----------------------------------------------------------------------------
(* The aggregators on their own: one call of either roster *)

JudgeArtifacts == {<<"a", "b">>, <<"c">>}

JudgeCall ==
    /\ jresult.st = "idle"
    /\ UNCHANGED first_done
    /\ \E which \in {"story", "brainstorm"}, artifact \in JudgeArtifacts :
          JudgeStart(which, artifact)

\* the evaluator that completes first is remembered
FirstDone(k) == first_done' = IF first_done = 0 THEN k ELSE first_done

JudgeEvalReturn ==
    \E k \in 1..NAxes, reply \in JudgeReplies : EvalReturn(k, reply) /\ FirstDone(k)

JudgeEvalRaise == \E k \in 1..NAxes : EvalRaise(k) /\ FirstDone(k)

-----------------------------------------------------------------------------
(* src/revisor.py: the deterministic patch applier *)

\* str.find(quote) on text: first index where quote occurs, 0 when absent
RECURSIVE IndexFrom(_, _, _)
IndexFrom(text, quote, at) ==
    IF at + Len(quote) - 1 > Len(text) THEN 0
    ELSE IF SubSeq(text, at, at + Len(quote) - 1) = quote THEN at
    ELSE IndexFrom(text, quote, at + 1)

\* `quote in text`
Contains(text, quote) == IndexFrom(text, quote, 1) # 0

\* str.rfind(quote) on text: last index where quote occurs, 0 when absent
RECURSIVE LastIndexFrom(_, _, _)
LastIndexFrom(text, quote, at) ==
    IF at < 1 THEN 0
    ELSE IF SubSeq(text, at, at + Len(quote) - 1) = quote THEN at
    ELSE LastIndexFrom(text, quote, at - 1)

\* a replacement of the last occurrence instead of the first
ReplaceFirst_Last(text, quote, fix) ==
    LET at == LastIndexFrom(text, quote, Len(text) - Len(quote) + 1)
    IN  SubSeq(text, 1, at - 1) \o fix \o SubSeq(text, at + Len(quote), Len(text))

\* text.replace(quote, fix, 1) for a quote that occurs in text
ReplaceFirst(text, quote, fix) ==
    LET at == IndexFrom(text, quote, 1)
    IN  SubSeq(text, 1, at - 1) \o fix \o SubSeq(text, at + Len(quote), Len(text))

\* text.replace(quote, fix) for a one-character quote: every occurrence
RECURSIVE ReplaceAll(_, _, _)
ReplaceAll(text, quote, fix) ==
    IF text = <<>> THEN <<>>
    ELSE (IF <<Head(text)>> = quote THEN fix ELSE <<Head(text)>>)
         \o ReplaceAll(Tail(text), quote, fix)

\* _apply_patch_once without the count argument of str.replace
apply_patch_once_All(text, quote, fix) ==
    IF quote = <<>> \/ ~Contains(text, quote)
    THEN [text |-> text, ok |-> FALSE]
    ELSE [text |-> ReplaceAll(text, quote, fix), ok |-> TRUE]

apply_patch_once(text, quote, fix) ==
    IF quote = <<>> \/ ~Contains(text, quote)
    THEN [text |-> text, ok |-> FALSE]
    ELSE [text |-> ReplaceFirst(text, quote, fix), ok |-> TRUE]

\* the loop of _apply_patches_deterministically from (revised, report) on;
\* once is the pair _apply_patch_once returned, bound to its value
RECURSIVE ApplyFrom(_, _, _)
ApplyFrom(revised, report, patches) ==
    IF patches = <<>> THEN [revised |-> revised, report |-> report]
    ELSE LET p == Head(patches)
             quote == Strip(p.quote)
             fix == Strip(p.fix)
             rest(once) ==
                 ApplyFrom(once.text,
                           Append(report,
                                  [judge |-> p.judge, applied |-> once.ok,
                                   reason |-> Strip(p.reason),
                                   quote |-> quote, fix |-> fix]),
                           Tail(patches))
         IN  CHOOSE out \in {rest(once) :
                             once \in {apply_patch_once(revised, quote, fix)}} :
                TRUE

apply_patches_deterministically(text, patches) ==
    ApplyFrom(text, <<>>, patches)

-----------------------------------------------------------------------------
(* src/revisor.py: revise_story *)

\* failed = [r for r in patch_report if not r["applied"]]
Failed(report) == {k \in 1..Len(report) : ~report[k].applied}

\* `fail_rate > 0.4` accepted at the threshold as well
FallbackNeeded_AtThreshold(patches, report) ==
    /\ patches # <<>>
    /\ 10 * Cardinality(Failed(report)) >= 4 * Max(1, Len(report))

\* `patches and fail_rate > 0.4`, fail_rate = len(failed) / max(1, len(report)).
\* The float quotient is correctly rounded and 0.4 is the float nearest 2/5,
\* so the comparison is that of the exact fractions.
FallbackNeeded(patches, report) ==
    /\ patches # <<>>
    /\ 10 * Cardinality(Failed(report)) > 4 * Max(1, Len(report))

\* the patches rendered into the fallback prompt
RECURSIVE PromptPatches(_)
PromptPatches(ps) ==
    IF ps = <<>> THEN <<>>
    ELSE (IF Head(ps).quote # <<>> /\ Head(ps).fix # <<>>
          THEN <<Head(ps)>> ELSE <<>>) \o PromptPatches(Tail(ps))

NoArgs ==
    [original_request |-> <<>>, plan |-> <<>>, current_story |-> <<>>,
     patches |-> <<>>, do_smoothing_pass |-> TRUE]

\* a fallback prompt built from the partially patched text
RewriteCall_Patched(a) ==
    [kind |-> "rewrite", request |-> a.original_request, plan |-> a.plan,
     story |-> apply_patches_deterministically(a.current_story, a.patches).revised,
     patches |-> PromptPatches(a.patches)]

\* the prompt of the fallback call_model
RewriteCall(a) ==
    [kind |-> "rewrite", request |-> a.original_request, plan |-> a.plan,
     story |-> a.current_story, patches |-> PromptPatches(a.patches)]

\* a smoothing prompt built from the story revise_story was given
SmoothingCall_Unpatched(a, text) ==
    [kind |-> "smoothing", request |-> a.original_request, plan |-> a.plan,
     story |-> a.current_story, patches |-> <<>>]

\* the prompt of _smoothing_pass(original_request, plan, patched_story)
SmoothingCall(a, text) ==
    [kind |-> "smoothing", request |-> a.original_request, plan |-> a.plan,
     story |-> text, patches |-> <<>>]

\* revise_story up to its first model call (or its return)
ReviseStart(a) ==
    \E d \in {apply_patches_deterministically(a.current_story, a.patches)} :
       /\ rargs' = a
       /\ patched_story' = d.revised
       /\ patch_report' = d.report
       /\ IF FallbackNeeded(a.patches, d.report)
          THEN rpc' = "fallback" /\ rcalls' = <<RewriteCall(a)>>
          ELSE IF a.do_smoothing_pass
          THEN rpc' = "smoothing" /\ rcalls' = <<SmoothingCall(a, d.revised)>>
          ELSE rpc' = "returned" /\ rcalls' = <<>>

\* the fallback call_model returns text
FallbackReturn(text) ==
    /\ rpc = "fallback"
    /\ patched_story' = text
    /\ last_reply' = text
    /\ IF rargs.do_smoothing_pass
       THEN rpc' = "smoothing" /\ rcalls' = Append(rcalls, SmoothingCall(rargs, text))
       ELSE rpc' = "returned" /\ UNCHANGED rcalls
    /\ UNCHANGED <<rargs, patch_report>>

\* the fallback call_model raises
FallbackRaise ==
    /\ rpc = "fallback"
    /\ rpc' = "raised"
    /\ UNCHANGED <<rargs, patched_story, patch_report, rcalls, last_reply>>

\* a smoothing pass that runs the patch applier again on the reply
SmoothReturn_Repatches(text) ==
    /\ rpc = "smoothing"
    /\ \E d \in {apply_patches_deterministically(text, rargs.patches)} :
          /\ patched_story' = d.revised
          /\ patch_report' = patch_report \o d.report
    /\ last_reply' = text
    /\ rpc' = "returned"
    /\ UNCHANGED <<rargs, rcalls>>

\* the call_model of _smoothing_pass returns text
SmoothReturn(text) ==
    /\ rpc = "smoothing"
    /\ patched_story' = text
    /\ last_reply' = text
    /\ rpc' = "returned"
    /\ UNCHANGED <<rargs, patch_report, rcalls>>

\* the call_model of _smoothing_pass raises
SmoothRaise ==
    /\ rpc = "smoothing"
    /\ rpc' = "raised"
    /\ UNCHANGED <<rargs, patched_story, patch_report, rcalls, last_reply>>

-----------------------------------------------------------------------------
(* revise_story on its own: every patch list of at most MaxPatches patches *)

StoryTexts == {<<"a", "b", "a">>, <<"c", "a", "c">>}

Patch(j, q, f) == [judge |-> j, quote |-> q, reason |-> <<"r">>, fix |-> f]

RevisePatches ==
    {Patch("safety", <<"a">>, <<"b">>), Patch("writing", <<"b">>, <<"c">>),
     Patch("thematic", <<"z">>, <<"a">>), Patch("safety", <<" ">>, <<"b">>)}

PatchListsUpTo(n) == UNION {[1..k -> RevisePatches] : k \in 0..n}

ReviseCall ==
    /\ rpc = "idle"
    /\ \E text \in StoryTexts, ps \in PatchListsUpTo(MaxPatches),
          smooth \in BOOLEAN :
          ReviseStart([original_request |-> <<"q">>, plan |-> <<"p">>,
                       current_story |-> text, patches |-> ps,
                       do_smoothing_pass |-> smooth])

ReviseFallbackReturn == \E text \in StoryTexts : FallbackReturn(text)

ReviseSmoothReturn == \E text \in StoryTexts : SmoothReturn(text)

-----------------------------------------------------------------------------
(* src/services/generator.py: StoryGenerator.generate.  pc names the call  *)
(* generate is waiting on; every model call either returns or raises, and  *)
(* an exception anywhere in the try block produces the failure result.     *)

BrainstormRounds == 5

max_iterations == 10

RequestTexts == {<<"q">>}
IdeaTexts == {<<"i">>, <<"j", " ">>}
PlanTexts == {<<"p">>}

NoOutcome == [st |-> "none", story_text |-> <<>>, audio_path |-> "none",
              image_paths |-> "none", error |-> "none"]

Success(text, audio, images) ==
    [st |-> "success", story_text |-> text, audio_path |-> audio,
     image_paths |-> images, error |-> "none"]

Failure(e) ==
    [st |-> "failure", story_text |-> <<>>, audio_path |-> "none",
     image_paths |-> "none", error |-> e]

\* self._log(message): an entry of execution_log.  Of the text of a message
\* the entry keeps its kind, the round it names and the error it carries.
Log(msg, n) == [msg |-> msg, n |-> n, arg |-> "none"]

LogError(e) == [msg |-> "ERROR", n |-> 0, arg |-> e]

Logged(entries) == execution_log' = execution_log \o entries

\* the five entries logged after a brainstorm judge round
BrainstormRoundLog(round) ==
    <<Log("Brainstorm Round", round + 1), Log("Safety", 0), Log("Concrete", 0),
      Log("Unique", 0), Log("Sensory", 0)>>

\* the five entries logged after a story judge round
StoryRoundLog(round) ==
    <<Log("Round", round + 1), Log("Safety", 0), Log("Logic", 0),
      Log("Writing", 0), Log("Theme", 0)>>

\* what is logged between the brainstorm loop and the plan_story call
PlanningLog == <<Log("Brainstorm Final", 0), Log("Planning Story", 0)>>

\* what is logged between the refinement loop and the text-to-speech request
AudioLog ==
    <<Log("Creating Audio Experience", 0), Log("Generating audio with voice", 0)>>

\* `for r in range(5)` / `for i in range(max_iterations)`: another iteration
\* follows iteration k
LoopHasNext_OneMore(k, rounds) == k + 1 <= rounds

\* a loop that runs one iteration less
LoopHasNext_StopsEarly(k, rounds) == k + 2 < rounds

LoopHasNext(k, rounds) == k + 1 < rounds

\* `if verdict["pass"]` with acceptance on the first round withheld unless
\* comprehensibility is at the maximum
Accepts_AfterRevisionOnly(verdict, round) ==
    /\ verdict.pass
    /\ round > 0 \/ verdict.details[2].res.score.n = 5

\* a loop without its `break`: the pass verdict is never acted on
Accepts_Never(verdict, round) == FALSE

\* `if verdict["pass"]:` of either loop
Accepts(verdict, round) == verdict.pass

\* `final_story = story` after the revision left out
FinalAfterRevision_Stale(revised, previous) == previous

\* `final_story = story` after `story = revise_story(...)`
FinalAfterRevision(revised, previous) == revised

\* a loop that goes on as soon as revise_story has been entered
RevisionDone_Started(revising) == revising # "idle"

\* `story = revise_story(...)`: the statement completes when the call returns
RevisionDone(revising) == revising = "returned"

\* a handler that returns the error alone, the log started afresh
GenFail_DropsLog(e) ==
    /\ pc' = "done"
    /\ result' = Failure(e)
    /\ execution_log' = <<LogError(e)>>
    /\ UNCHANGED <<sanitized_input, brainstorm_result, r, plan_response,
                   story, final_story, i, audio_path, asset_story, last_reply>>

\* except Exception: the error is logged and the failure result returned
GenFail(e) ==
    /\ pc' = "done"
    /\ result' = Failure(e)
    /\ Logged(<<LogError(e)>>)
    /\ UNCHANGED <<sanitized_input, brainstorm_result, r, plan_response,
                   story, final_story, i, audio_path, asset_story, last_reply>>

\* sanitize_input returns
SanitizeReturn(text) ==
    /\ pc = "sanitize"
    /\ sanitized_input' = Strip(text)
    /\ last_reply' = text
    /\ pc' = "brainstorm"
    /\ Logged(<<Log("Brainstorming Ideas", 0)>>)
    /\ UNCHANGED <<brainstorm_result, r, plan_response, story, final_story, i,
                   audio_path, result, asset_story>>
    /\ UNCHANGED <<judgeVars, reviseVars>>

\* brainstorm_ideas returns; round 1 of the brainstorm loop starts
BrainstormReturn(text) ==
    /\ pc = "brainstorm"
    /\ brainstorm_result' = text
    /\ last_reply' = text
    /\ r' = 0
    /\ JudgeStart("brainstorm", text)
    /\ pc' = "b_judge"
    /\ Logged(<<Log("Brainstorm Judge-Revise Loop", 0)>>)
    /\ UNCHANGED <<sanitized_input, plan_response, story, final_story, i,
                   audio_path, result, asset_story>>
    /\ UNCHANGED reviseVars

\* brainstorm_comprehensive_judge returned verdict_b
BrainstormJudged ==
    /\ UNCHANGED last_reply
    /\ pc = "b_judge"
    /\ jresult.st = "returned"
    /\ IF Accepts(jresult.verdict, r)
       THEN pc' = "plan" /\ Logged(BrainstormRoundLog(r) \o PlanningLog)
       ELSE pc' = "b_revise" /\ Logged(BrainstormRoundLog(r))
    /\ UNCHANGED <<sanitized_input, brainstorm_result, r, plan_response, story,
                   final_story, i, audio_path, result, asset_story>>
    /\ UNCHANGED <<judgeVars, reviseVars>>

\* revise_brainstorm_ideas returns
BrainstormRevised(text) ==
    /\ pc = "b_revise"
    /\ brainstorm_result' = Strip(text)
    /\ last_reply' = text
    /\ IF LoopHasNext(r, BrainstormRounds)
       THEN /\ r' = r + 1
            /\ JudgeStart("brainstorm", Strip(text))
            /\ pc' = "b_judge"
            /\ UNCHANGED execution_log
       ELSE /\ pc' = "plan"
            /\ Logged(PlanningLog)
            /\ UNCHANGED <<r, judgeVars>>
    /\ UNCHANGED <<sanitized_input, plan_response, story, final_story, i,
                   audio_path, result, asset_story>>
    /\ UNCHANGED reviseVars

\* a pipeline in which the plan is taken for the first draft
PlanReturn_SkipsWrite(text) ==
    /\ pc = "plan"
    /\ plan_response' = text
    /\ story' = text
    /\ final_story' = text
    /\ last_reply' = text
    /\ i' = 0
    /\ JudgeStart("story", text)
    /\ pc' = "s_judge"
    /\ Logged(<<Log("Entering Judge-Revise Loop", 0), Log("ROUND EVALUATION", 1)>>)
    /\ UNCHANGED <<sanitized_input, brainstorm_result, r, audio_path, result,
                   asset_story>>
    /\ UNCHANGED reviseVars

\* plan_story returns
PlanReturn(text) ==
    /\ pc = "plan"
    /\ plan_response' = text
    /\ last_reply' = text
    /\ pc' = "write"
    /\ Logged(<<Log("Writing Draft 1", 0)>>)
    /\ UNCHANGED <<sanitized_input, brainstorm_result, r, story, final_story, i,
                   audio_path, result, asset_story>>
    /\ UNCHANGED <<judgeVars, reviseVars>>

\* write_story returns; round 1 of the refinement loop starts
WriteReturn(text) ==
    /\ pc = "write"
    /\ story' = text
    /\ last_reply' = text
    /\ final_story' = text
    /\ i' = 0
    /\ JudgeStart("story", text)
    /\ pc' = "s_judge"
    /\ Logged(<<Log("DRAFT 1 PREVIEW", 0), Log("Entering Judge-Revise Loop", 0),
                Log("ROUND EVALUATION", 1)>>)
    /\ UNCHANGED <<sanitized_input, brainstorm_result, r, plan_response,
                   audio_path, result, asset_story>>
    /\ UNCHANGED reviseVars

\* a loop that hands the working story to revise_story as the plan
StoryJudged_PlanFromStory ==
    /\ UNCHANGED last_reply
    /\ pc = "s_judge"
    /\ jresult.st = "returned"
    /\ IF Accepts(jresult.verdict, i)
       THEN /\ final_story' = story
            /\ pc' = "audio"
            /\ asset_story' = final_story'
            /\ Logged(StoryRoundLog(i) \o <<Log("ALL JUDGES SATISFIED", 0)>>
                      \o AudioLog)
            /\ UNCHANGED reviseVars
       ELSE /\ ReviseStart([original_request |-> sanitized_input,
                            plan |-> story,
                            current_story |-> story,
                            patches |-> jresult.verdict.patches,
                            do_smoothing_pass |-> TRUE])
            /\ pc' = "s_revise"
            /\ Logged(StoryRoundLog(i) \o <<Log("Critiques Received", 0)>>)
            /\ UNCHANGED <<final_story, asset_story>>
    /\ UNCHANGED <<sanitized_input, brainstorm_result, r, plan_response, story,
                   i, audio_path, result>>
    /\ UNCHANGED judgeVars

\* comprehensive_judge returned verdict
StoryJudged ==
    /\ UNCHANGED last_reply
    /\ pc = "s_judge"
    /\ jresult.st = "returned"
    /\ IF Accepts(jresult.verdict, i)
       THEN /\ final_story' = story
            /\ pc' = "audio"
            /\ asset_story' = final_story'
            /\ Logged(StoryRoundLog(i) \o <<Log("ALL JUDGES SATISFIED", 0)>>
                      \o AudioLog)
            /\ UNCHANGED reviseVars
       ELSE /\ ReviseStart([original_request |-> sanitized_input,
                            plan |-> plan_response,
                            current_story |-> story,
                            patches |-> jresult.verdict.patches,
                            do_smoothing_pass |-> TRUE])
            /\ pc' = "s_revise"
            /\ Logged(StoryRoundLog(i) \o <<Log("Critiques Received", 0)>>)
            /\ UNCHANGED <<final_story, asset_story>>
    /\ UNCHANGED <<sanitized_input, brainstorm_result, r, plan_response, story,
                   i, audio_path, result>>
    /\ UNCHANGED judgeVars

\* revise_story returned: its frame is gone, patched_story stays as the value
\* it returned
StoryRevised ==
    /\ UNCHANGED last_reply
    /\ pc = "s_revise"
    /\ RevisionDone(rpc)
    /\ story' = patched_story
    /\ final_story' = FinalAfterRevision(patched_story, final_story)
    /\ IF LoopHasNext(i, max_iterations)
       THEN /\ i' = i + 1
            /\ JudgeStart("story", patched_story)
            /\ pc' = "s_judge"
            /\ Logged(<<Log("ROUND EVALUATION", i + 2)>>)
            /\ UNCHANGED asset_story
       ELSE /\ pc' = "audio"
            /\ asset_story' = final_story'
            /\ Logged(<<Log("Max iterations reached", 0)>> \o AudioLog)
            /\ UNCHANGED <<i, judgeVars>>
    /\ UNCHANGED <<sanitized_input, brainstorm_result, r, plan_response,
                   audio_path, result>>
    /\ rpc' = "idle" /\ rargs' = NoArgs /\ patch_report' = <<>> /\ rcalls' = <<>>
    /\ UNCHANGED patched_story

\* generate_audio_file returns a file name, or None on a non-200 answer
AudioReturn(path) ==
    /\ UNCHANGED last_reply
    /\ pc = "audio"
    /\ audio_path' = path
    /\ pc' = "images"
    /\ asset_story' = final_story
    /\ Logged(<<Log(IF path = "none" THEN "Error generating audio"
                    ELSE "Successfully saved audio", 0),
                Log("Generating Story Images", 0)>>)
    /\ UNCHANGED <<sanitized_input, brainstorm_result, r, plan_response, story,
                   final_story, i, result>>
    /\ UNCHANGED <<judgeVars, reviseVars>>

\* generate_story_images returns; generate returns the success dict
ImagesReturn(paths) ==
    /\ UNCHANGED last_reply
    /\ pc = "images"
    /\ result' = Success(final_story, audio_path, paths)
    /\ pc' = "done"
    /\ UNCHANGED <<sanitized_input, brainstorm_result, r, plan_response, story,
                   final_story, i, audio_path, execution_log, asset_story>>
    /\ UNCHANGED <<judgeVars, reviseVars>>

\* the call generate is waiting on raises
CallRaise ==
    /\ pc \in {"sanitize", "brainstorm", "b_revise", "plan", "write", "audio",
               "images"}
    /\ GenFail("call")
    /\ UNCHANGED <<judgeVars, reviseVars>>

\* asyncio.run(comprehensive_judge(...)) raises
JudgeRaised ==
    /\ pc \in {"b_judge", "s_judge"}
    /\ jresult.st = "raised"
    /\ GenFail("judge")
    /\ UNCHANGED <<judgeVars, reviseVars>>

\* revise_story raises
ReviseRaised ==
    /\ pc = "s_revise"
    /\ rpc = "raised"
    /\ GenFail("revise")
    /\ UNCHANGED <<judgeVars, reviseVars>>

\* the brainstorm texts of the runs checked for termination
LiveIdeaTexts == {<<"i">>}

GenEvalReturn(replies) ==
    /\ pc \in {"b_judge", "s_judge"}
    /\ \E k \in 1..NAxes, reply \in replies : EvalReturn(k, reply)

GenEvalRaise ==
    /\ pc \in {"b_judge", "s_judge"}
    /\ \E k \in 1..NAxes : EvalRaise(k)

GenFallbackReturn ==
    /\ pc = "s_revise"
    /\ \E text \in StoryTexts : FallbackReturn(text)

GenFallbackRaise == pc = "s_revise" /\ FallbackRaise

GenSmoothReturn ==
    /\ pc = "s_revise"
    /\ \E text \in StoryTexts : SmoothReturn(text)

GenSmoothRaise == pc = "s_revise" /\ SmoothRaise

-----------------------------------------------------------------------------
(* src/services/interviewer.py: StoryInterviewer.generate_questions.       *)
(* The reply is text with "\n" between its lines.                          *)

WhiteSpace == {" ", "\n"}

\* str.lstrip(chars)
RECURSIVE LStripChars(_, _)
LStripChars(s, chars) ==
    IF s # <<>> /\ Head(s) \in chars THEN LStripChars(Tail(s), chars) ELSE s

\* str.rstrip(chars)
RECURSIVE RStripChars(_, _)
RStripChars(s, chars) ==
    IF s # <<>> /\ s[Len(s)] \in chars
    THEN RStripChars(SubSeq(s, 1, Len(s) - 1), chars)
    ELSE s

\* str.strip() on text that may hold line ends
StripWs(s) == RStripChars(LStripChars(s, WhiteSpace), WhiteSpace)

\* str.split('\n'): cur is the line being read
RECURSIVE SplitFrom(_, _)
SplitFrom(s, cur) ==
    IF s = <<>> THEN <<cur>>
    ELSE IF Head(s) = "\n" THEN <<cur>> \o SplitFrom(Tail(s), <<>>)
    ELSE SplitFrom(Tail(s), Append(cur, Head(s)))

SplitLines(s) == SplitFrom(s, <<>>)

\* line.lstrip('0123456789.-) ')
NumberingChars == DigitChars \cup {".", "-", ")", " "}

\* line[0].isdigit() or line.startswith('-'), for a non-empty line
IsNumbered(line) == line # <<>> /\ (line[1] \in DigitChars \/ line[1] = "-")

\* the loop over the lines of the reply
RECURSIVE ParseQuestions(_)
ParseQuestions(lines) ==
    IF lines = <<>> THEN <<>>
    ELSE LET line == StripWs(Head(lines))
             clean == StripWs(LStripChars(line, NumberingChars))
         IN  (IF /\ IsNumbered(line)
                 /\ clean # <<>>
                 /\ \E k \in 1..Len(clean) : clean[k] = "?"
              THEN <<clean>> ELSE <<>>)
             \o ParseQuestions(Tail(lines))

\* the two fixed questions, each kept as one token
FallbackQuestions ==
    <<<<"What is your favorite color for the main character?">>,
      <<"Where would you like this story to take place?">>>>

\* a fallback taken only when no question was found
NeedsFallback_WhenEmpty(qs) == qs = <<>>

\* `if len(questions) < 2`
NeedsFallback(qs) == Len(qs) < 2

\* questions[:2]
FirstTwo(qs) == SubSeq(qs, 1, IF Len(qs) < 2 THEN Len(qs) ELSE 2)

\* generate_questions from the reply of call_model on
generate_questions(reply) ==
    LET parsed_questions == ParseQuestions(SplitLines(StripWs(reply)))
    IN  FirstTwo(IF NeedsFallback(parsed_questions) THEN FallbackQuestions
                 ELSE parsed_questions)

\* the lines a reply is made of
ReplyLines ==
    {<<"1", ".", " ", "w", "?">>, <<"-", " ", "x", "?">>, <<"w", "?">>,
     <<"2", ")", " ", "y">>, <<>>, <<" ", "3", ".", " ", "z", "?", " ">>,
     <<"1", ".">>, <<"*", " ", "v", "?">>}

\* lines joined by "\n"
RECURSIVE JoinLines(_)
JoinLines(lines) ==
    IF lines = <<>> THEN <<>>
    ELSE IF Len(lines) = 1 THEN lines[1]
    ELSE lines[1] \o <<"\n">> \o JoinLines(Tail(lines))

\* every reply of at most n of these lines
RepliesOfLines(n) ==
    UNION {{JoinLines(ls) : ls \in [1..k -> ReplyLines]} : k \in 0..n}

\* call_model returned response; generate_questions returns
AskCall ==
    /\ qpc = "call"
    /\ questions' = generate_questions(response)
    /\ qpc' = "returned"
    /\ UNCHANGED response

-----------------------------------------------------------------------------
(* The interview routes (app.py) and the sessions they keep.               *)
(* gunicorn runs `workers` processes of class sync: a process serves one   *)
(* request at a time, so a handler is one step, and each process has its   *)
(* own module-level dict interview_sessions.  The Story table is the one   *)
(* database all processes share.  The audio files the handlers write are   *)
(* not part of the state.                                                  *)

\* multiprocessing.cpu_count() on the smallest host
cpu_count == 1

\* workers = multiprocessing.cpu_count() * 2 + 1
workers == cpu_count * 2 + 1

Workers == 1..workers

\* the number of sessions started and of stories committed in a run
MaxSessions == 1
MaxStories == 1

\* the values of str(uuid_lib.uuid4()); 0 is an id that was never issued
SessionIds == 1..MaxSessions

\* a key that interview_sessions does not hold
NoSession ==
    [present |-> FALSE, original_prompt |-> <<>>, sanitized_prompt |-> <<>>,
     questions |-> <<>>, current_question_idx |-> 0, qa_pairs |-> <<>>,
     enhanced_prompt |-> <<>>, completed |-> FALSE]

\* the dict start_interview stores; interviewer.qa_pairs is kept as qa_pairs,
\* the keys not set yet as an empty enhanced_prompt and completed FALSE
NewSession(user_prompt, sanitized_prompt, qs) ==
    [present |-> TRUE, original_prompt |-> user_prompt,
     sanitized_prompt |-> sanitized_prompt, questions |-> qs,
     current_question_idx |-> 0, qa_pairs |-> <<>>,
     enhanced_prompt |-> <<>>, completed |-> FALSE]

\* a call that raises, a call that returns text
Raises == [exc |-> TRUE, text |-> <<>>]
Returns(text) == [exc |-> FALSE, text |-> text]

\* the response of a request: jsonify(...), status, and what the handler got
\* from generator.generate ("none" when it did not call it)
Response(route, session_id, status, body, generated) ==
    [route |-> route, session_id |-> session_id,
     status |-> status, body |-> body, generated |-> generated]

NoRequest == Response("none", 0, 0, "none", "none")

\* return jsonify({'error': ...}), 400
Reject_Expires(route, w, session_id, body) ==
    /\ http' = Response(route, session_id, 400, body, "none")
    /\ interview_sessions' =
          [interview_sessions EXCEPT ![w] =
              [k \in SessionIds |-> IF k = session_id THEN NoSession ELSE @[k]]]
    /\ UNCHANGED <<stories, issued>>

Reject(route, w, session_id, body) ==
    /\ http' = Response(route, session_id, 400, body, "none")
    /\ UNCHANGED <<interview_sessions, stories, issued>>

\* an exception leaves the handler: Flask answers 500; sessions is the dict
\* as the handler left it
Abort(route, w, session_id, body, sessions) ==
    /\ http' = Response(route, session_id, 500, body, "none")
    /\ interview_sessions' = sessions
    /\ UNCHANGED <<stories, issued>>

\* StoryInterviewer.transcribe_audio: the stripped transcript, "" when
\* Whisper raises
transcribe_audio(heard) == IF heard.exc THEN <<>> ELSE StripWs(heard.text)

\* StoryInterviewer.add_qa_pair
add_qa_pair(qa_pairs, question, answer) ==
    Append(qa_pairs, [question |-> question, answer |-> answer])

\* `if session_data['current_question_idx'] >= len(session_data['questions'])`
InterviewOver_AfterFirst(session_data) ==
    session_data.current_question_idx >= 1

InterviewOver(session_data) ==
    session_data.current_question_idx >= Len(session_data.questions)

\* `if not result['success']`
GenerationFailed_Never(res) == FALSE

GenerationFailed(res) == res.st # "success"

\* Story(...) built from the result of generate
StoryRow(prompt, original_prompt, interview_data, res) ==
    [prompt |-> prompt, original_prompt |-> original_prompt,
     interview_data |-> interview_data, story_text |-> res.story_text,
     audio_path |-> res.audio_path, image_paths |-> res.image_paths]

\* the form values of 'prompt'
PromptTexts == {<<" ">>, <<"p", " ">>}

\* the replies of the question call: with one question and with two
InterviewReplies ==
    {<<"1", ".", " ", "w", "?">>,
     JoinLines(<<<<"1", ".", " ", "w", "?">>, <<"-", " ", "x", "?">>>>)}

\* what Whisper hears
Transcripts == {<<" ">>, <<"a", "\n">>}

\* the enhanced prompts call_model writes
EnhancedTexts == {<<" ", "e">>}

\* the results of generator.generate
GenerateResults ==
    {Success(<<"s">>, "file", "some"), Failure("call")}

\* POST /interview/start served by worker w: sanitized and reply are the
\* outcomes of the two model calls
start_interview(w, prompt, sanitized, reply) ==
    /\ Cardinality(issued) < MaxSessions
    /\ LET user_prompt == StripWs(prompt)
           session_id == Cardinality(issued) + 1
       IN  IF user_prompt = <<>>
           THEN Reject("start", w, 0, "prompt")
           ELSE IF sanitized.exc \/ reply.exc
           THEN Abort("start", w, 0, "exception", interview_sessions)
           ELSE /\ issued' = issued \cup {session_id}
                /\ interview_sessions' =
                      [interview_sessions EXCEPT ![w][session_id] =
                          NewSession(user_prompt, sanitized.text,
                                     generate_questions(reply.text))]
                /\ http' = Response("start", session_id, 200, "question",
                                    "none")
                /\ UNCHANGED stories

\* StoryInterviewer.synthesize_enhanced_prompt, given the outcome of its
\* call_model
synthesize_enhanced_prompt(qa_pairs, original_prompt, written) ==
    IF qa_pairs = <<>> THEN Returns(original_prompt)
    ELSE IF written.exc THEN Raises
    ELSE Returns(StripWs(written.text))

\* POST /interview/answer served by worker w: audio_file tells whether the
\* form holds 'audio', heard is the outcome of Whisper, written the outcome
\* of the model call of synthesize_enhanced_prompt
submit_answer(w, session_id, audio_file, heard, written) ==
    IF session_id = 0 \/ ~interview_sessions[w][session_id].present
    THEN Reject("answer", w, session_id, "session")
    ELSE IF ~audio_file
    THEN Reject("answer", w, session_id, "audio")
    ELSE
    LET session_data == interview_sessions[w][session_id]
        current_idx == session_data.current_question_idx
    IN  IF current_idx >= Len(session_data.questions)
        THEN \* session_data['questions'][current_idx] raises IndexError
             Abort("answer", w, session_id, "IndexError", interview_sessions)
        ELSE
        LET current_question == session_data.questions[current_idx + 1]
            transcription == transcribe_audio(heard)
            stored == [session_data EXCEPT
                          !.qa_pairs = add_qa_pair(@, current_question,
                                                   transcription),
                          !.current_question_idx = @ + 1]
            enhanced == synthesize_enhanced_prompt(
                            stored.qa_pairs, stored.sanitized_prompt, written)
        IN  IF transcription = <<>>
            THEN Reject("answer", w, session_id, "transcription")
            ELSE IF ~InterviewOver(stored)
            THEN /\ interview_sessions' =
                       [interview_sessions EXCEPT ![w][session_id] = stored]
                 /\ http' = Response("answer", session_id, 200, "next",
                                     "none")
                 /\ UNCHANGED <<stories, issued>>
            ELSE IF enhanced.exc
            THEN Abort("answer", w, session_id, "exception",
                       [interview_sessions EXCEPT ![w][session_id] = stored])
            ELSE /\ interview_sessions' =
                       [interview_sessions EXCEPT ![w][session_id] =
                           [stored EXCEPT !.enhanced_prompt = enhanced.text,
                                          !.completed = TRUE]]
                 /\ http' = Response("answer", session_id, 200, "complete",
                                     "none")
                 /\ UNCHANGED <<stories, issued>>

\* POST /interview/generate/<session_id> served by worker w: res is what
\* generator.generate returns, committed tells whether db.session.commit()
\* returned
generate_from_interview(w, session_id, res, committed) ==
    /\ Len(stories) < MaxStories
    /\ IF session_id = 0 \/ ~interview_sessions[w][session_id].present
       THEN Reject("interview_generate", w, session_id, "session")
       ELSE IF ~interview_sessions[w][session_id].completed
       THEN Reject("interview_generate", w, session_id, "incomplete")
       ELSE
       LET session_data == interview_sessions[w][session_id]
       IN  IF GenerationFailed(res)
           THEN /\ http' = Response("interview_generate", session_id, 500,
                                    "generation", res.st)
                /\ UNCHANGED <<interview_sessions, stories, issued>>
           ELSE IF ~committed
           THEN /\ http' = Response("interview_generate", session_id, 500,
                                    "exception", res.st)
                /\ UNCHANGED <<interview_sessions, stories, issued>>
           ELSE /\ stories' = Append(stories,
                                 StoryRow(session_data.enhanced_prompt,
                                          session_data.original_prompt,
                                          session_data.qa_pairs, res))
                /\ interview_sessions' =
                      [interview_sessions EXCEPT ![w][session_id] = NoSession]
                /\ http' = Response("interview_generate", session_id, 200,
                                    "story", res.st)
                /\ UNCHANGED issued

\* POST /generate, the route without an interview; it touches no session,
\* so it is the same step whichever worker serves it
generate(prompt, res, committed) ==
    /\ Len(stories) < MaxStories
    /\ LET user_prompt == StripWs(prompt)
       IN  IF user_prompt = <<>>
           THEN /\ http' = Response("generate", 0, 200, "prompt", "none")
                /\ UNCHANGED <<interview_sessions, stories, issued>>
           ELSE IF GenerationFailed(res)
           THEN /\ http' = Response("generate", 0, 200, "generation",
                                    res.st)
                /\ UNCHANGED <<interview_sessions, stories, issued>>
           ELSE IF ~committed
           THEN /\ http' = Response("generate", 0, 500, "exception",
                                    res.st)
                /\ UNCHANGED <<interview_sessions, stories, issued>>
           ELSE /\ stories' = Append(stories,
                                 StoryRow(user_prompt, <<>>, <<>>, res))
                /\ http' = Response("generate", 0, 302, "story", res.st)
                /\ UNCHANGED <<interview_sessions, issued>>

\* the sequence without its n-th element
Without(seq, n) == SubSeq(seq, 1, n - 1) \o SubSeq(seq, n + 1, Len(seq))

\* POST /delete/<story_uuid>: n is the row the uuid names, 0 when there is
\* none (first_or_404)
delete_story(n) ==
    /\ IF n \in 1..Len(stories)
       THEN /\ stories' = Without(stories, n)
            /\ http' = Response("delete", 0, 302, "deleted", "none")
       ELSE /\ http' = Response("delete", 0, 404, "not_found", "none")
            /\ UNCHANGED stories
    /\ UNCHANGED <<interview_sessions, issued>>

\* the outcomes of a model call that writes one of texts
CallOutcomes(texts) == {Raises} \cup {Returns(t) : t \in texts}

StartRequest ==
    \E w \in Workers, prompt \in PromptTexts,
       sanitized \in CallOutcomes({<<"p">>}),
       reply \in CallOutcomes(InterviewReplies) :
        start_interview(w, prompt, sanitized, reply)

AnswerRequest ==
    \E w \in Workers, session_id \in SessionIds \cup {0} :
        \/ submit_answer(w, session_id, FALSE, Raises, Raises)
        \/ \E heard \in CallOutcomes(Transcripts),
              written \in CallOutcomes(EnhancedTexts) :
               submit_answer(w, session_id, TRUE, heard, written)

InterviewGenerateRequest ==
    \E w \in Workers, session_id \in SessionIds \cup {0},
       res \in GenerateResults, committed \in BOOLEAN :
        generate_from_interview(w, session_id, res, committed)

GenerateRequest ==
    \E prompt \in PromptTexts, res \in GenerateResults, committed \in BOOLEAN :
        generate(prompt, res, committed)

DeleteRequest ==
    \E n \in 0..MaxStories : delete_story(n)

\* the processes just forked: no session, no story, no request served
AppIdle ==
    /\ interview_sessions = [w \in Workers |-> [k \in SessionIds |-> NoSession]]
    /\ stories = <<>>
    /\ issued = {}
    /\ http = NoRequest

-----------------------------------------------------------------------------
(* Story images (storybook.py).  Each run of generate_story_images is a    *)
(* coroutine of its own event loop (asyncio.run in generator.py); the runs *)
(* of one process share the module global LOCKED_REVISED_PROMPT.  A step   *)
(* is what a coroutine does between two awaits.                            *)

\* the stories whose images one process generates
ImageRuns == {1, 2}

\* response.data[0].revised_prompt of the first image of each story
RevisedPrompts == <<"revised prompt of story 1", "revised prompt of story 2">>

\* f"{story_folder}/images/page_{index+1}.png"; "None" is Python's None
PageFile(index) == <<"page_1.png", "page_2.png", "page_3.png">>[index + 1]

\* the story texts given to generate_story_images
ImageStoryTexts ==
    {<<" ", "\n">>, <<"a">>, <<"a", "\n", "\n", " ", "b">>,
     <<"a", "\n", "b", "\n", "c", "\n">>}

\* [p.strip() for p in story_text.split('\n') if p.strip()]
RECURSIVE StrippedNonEmpty(_)
StrippedNonEmpty(lines) ==
    IF lines = <<>> THEN <<>>
    ELSE (IF StripWs(Head(lines)) # <<>> THEN <<StripWs(Head(lines))>>
          ELSE <<>>) \o StrippedNonEmpty(Tail(lines))

Paragraphs(story_text) == StrippedNonEmpty(SplitLines(story_text))

\* a run of generate_story_images: st is the await it is at ("idle" before
\* the call), tasks the process_paragraph coroutines given to gather, failed
\* the indices whose image call returned None, all_paths the list returned
IdleRun ==
    [st |-> "idle", paragraphs |-> <<>>, first_image_path |-> "None",
     tasks |-> <<>>, failed |-> {}, all_paths |-> <<>>]

\* process_paragraph(i, ...) as gather starts it: awaiting its prompt
NewTask == [st |-> "prompt", path |-> "None"]

\* final_prompt of generate_dalle_image: what it appends to image_prompt
\* ("none": nothing)
LockedSuffix(index) ==
    IF index > 0 /\ LOCKED_REVISED_PROMPT # "none"
    THEN LOCKED_REVISED_PROMPT ELSE "none"

\* aclient.images.generate is called for paragraph index of story s
ImageRequested(s, index) ==
    image_requests' =
        image_requests \cup
            {[story |-> s, index |-> index, locked |-> LockedSuffix(index)]}

\* [first_image_path] + list(remaining_paths), without the failed ones
AllPaths_DropsFailed(first_image_path, tasks_done) ==
    <<first_image_path>>
        \o SelectSeq([k \in 1..Len(tasks_done) |-> tasks_done[k].path],
                     LAMBDA path : path # "None")

\* [first_image_path] + list(remaining_paths)
AllPaths(first_image_path, tasks_done) ==
    <<first_image_path>> \o [k \in 1..Len(tasks_done) |-> tasks_done[k].path]

\* generate_story_images(story_text, ...) is called
ImagesStart(s, story_text) ==
    /\ img[s].st = "idle"
    /\ LET paragraphs == Paragraphs(story_text)
       IN  img' = [img EXCEPT ![s] =
                      IF paragraphs = <<>>
                      THEN [IdleRun EXCEPT !.st = "returned"]
                      ELSE [IdleRun EXCEPT !.st = "guide",
                                           !.paragraphs = paragraphs]]
    /\ UNCHANGED <<LOCKED_REVISED_PROMPT, image_requests>>

\* get_consistency_guide returns; process_paragraph(0) awaits its prompt
GuideReturn(s) ==
    /\ img[s].st = "guide"
    /\ img' = [img EXCEPT ![s].st = "first_prompt"]
    /\ UNCHANGED <<LOCKED_REVISED_PROMPT, image_requests>>

\* generate_image_prompt returns for paragraph 0; the image is requested
FirstPromptReturn(s) ==
    /\ img[s].st = "first_prompt"
    /\ ImageRequested(s, 0)
    /\ img' = [img EXCEPT ![s].st = "first_image"]
    /\ UNCHANGED LOCKED_REVISED_PROMPT

\* an acall_model of the run raises: nothing catches it, the run ends with
\* the exception and asyncio.run cancels what is left
PromptRaise(s) ==
    /\ \/ img[s].st \in {"guide", "first_prompt"}
       \/ /\ img[s].st = "rest"
          /\ \E k \in 1..Len(img[s].tasks) : img[s].tasks[k].st = "prompt"
    /\ img' = [img EXCEPT ![s].st = "raised"]
    /\ UNCHANGED <<LOCKED_REVISED_PROMPT, image_requests>>

\* the image call of paragraph 0 ends: answered tells whether the API
\* answered, saved whether the download and the write went through
FirstImageReturn(s, answered, saved) ==
    /\ img[s].st = "first_image"
    /\ LOCKED_REVISED_PROMPT' =
          IF answered THEN RevisedPrompts[s] ELSE LOCKED_REVISED_PROMPT
    /\ LET run == img[s]
       IN  img' = [img EXCEPT ![s] =
              IF ~(answered /\ saved)
              THEN [run EXCEPT !.st = "returned", !.failed = {0}]
              ELSE IF Len(run.paragraphs) = 1
              THEN [run EXCEPT !.st = "returned",
                               !.first_image_path = PageFile(0),
                               !.all_paths = <<PageFile(0)>>]
              ELSE [run EXCEPT !.st = "rest",
                               !.first_image_path = PageFile(0),
                               !.tasks = [k \in 1..(Len(run.paragraphs) - 1)
                                             |-> NewTask]]]
    /\ UNCHANGED image_requests

\* generate_image_prompt returns for paragraph k >= 1; the image is requested
TaskPromptReturn(s, k) ==
    /\ img[s].st = "rest"
    /\ k \in 1..Len(img[s].tasks)
    /\ img[s].tasks[k].st = "prompt"
    /\ ImageRequested(s, k)
    /\ img' = [img EXCEPT ![s].tasks[k].st = "image"]
    /\ UNCHANGED LOCKED_REVISED_PROMPT

\* the image call of paragraph k >= 1 ends with a file or with None
TaskImageReturn(s, k, saved) ==
    /\ img[s].st = "rest"
    /\ k \in 1..Len(img[s].tasks)
    /\ img[s].tasks[k].st = "image"
    /\ img' = [img EXCEPT
          ![s].tasks[k] = [st |-> "done",
                           path |-> IF saved THEN PageFile(k) ELSE "None"],
          ![s].failed = IF saved THEN @ ELSE @ \cup {k}]
    /\ UNCHANGED <<LOCKED_REVISED_PROMPT, image_requests>>

\* asyncio.gather returns; generate_story_images returns all_paths
ImagesGathered(s) ==
    /\ img[s].st = "rest"
    /\ \A k \in 1..Len(img[s].tasks) : img[s].tasks[k].st = "done"
    /\ img' = [img EXCEPT
          ![s].st = "returned",
          ![s].all_paths = AllPaths(img[s].first_image_path, img[s].tasks)]
    /\ UNCHANGED <<LOCKED_REVISED_PROMPT, image_requests>>

\* the module just imported, no run started
ImagesIdle ==
    /\ LOCKED_REVISED_PROMPT = "none"
    /\ img = [s \in ImageRuns |-> IdleRun]
    /\ image_requests = {}

-----------------------------------------------------------------------------
(* Specifications *)

\* generate_questions on every reply of at most MaxLines lines
AskInit ==
    /\ response \in RepliesOfLines(MaxLines)
    /\ questions = <<>>
    /\ qpc = "call"
    /\ response_text = NoneReply /\ parsed = NoResult /\ ppc = "idle"
    /\ default_response = DEFAULT_JUDGE_RESPONSE /\ aliased = {}
    /\ roster = "none" /\ tasks = NoTasks /\ jresult = IdleResult
    /\ rpc = "idle" /\ rargs = NoArgs
    /\ patched_story = <<>> /\ patch_report = <<>> /\ rcalls = <<>>
    /\ pc = "idle" /\ sanitized_input = <<>> /\ brainstorm_result = <<>>
    /\ r = 0 /\ plan_response = <<>> /\ story = <<>> /\ final_story = <<>>
    /\ i = 0 /\ audio_path = "none" /\ result = NoOutcome
    /\ execution_log = <<>> /\ asset_story = <<>>
    /\ last_reply = <<>> /\ first_done = 0
    /\ AppIdle /\ ImagesIdle

AskNext ==
    AskCall /\ UNCHANGED <<parseVars, judgeVars, reviseVars, genVars,
                           last_reply, first_done, appVars, imageVars>>

SpecAsk == AskInit /\ [][AskNext]_vars

\* the web application with no session and no story
InterviewInit ==
    /\ response_text = NoneReply /\ parsed = NoResult /\ ppc = "idle"
    /\ default_response = DEFAULT_JUDGE_RESPONSE /\ aliased = {}
    /\ roster = "none" /\ tasks = NoTasks /\ jresult = IdleResult
    /\ rpc = "idle" /\ rargs = NoArgs
    /\ patched_story = <<>> /\ patch_report = <<>> /\ rcalls = <<>>
    /\ pc = "idle" /\ sanitized_input = <<>> /\ brainstorm_result = <<>>
    /\ r = 0 /\ plan_response = <<>> /\ story = <<>> /\ final_story = <<>>
    /\ i = 0 /\ audio_path = "none" /\ result = NoOutcome
    /\ execution_log = <<>> /\ asset_story = <<>>
    /\ response = <<>> /\ questions = <<>> /\ qpc = "idle"
    /\ last_reply = <<>> /\ first_done = 0
    /\ AppIdle /\ ImagesIdle

InterviewNext ==
    \/ StartRequest /\ UNCHANGED <<parseVars, judgeVars, reviseVars, genVars, last_reply, first_done, askVars, imageVars>>
    \/ AnswerRequest /\ UNCHANGED <<parseVars, judgeVars, reviseVars, genVars, last_reply, first_done, askVars, imageVars>>
    \/ InterviewGenerateRequest /\ UNCHANGED <<parseVars, judgeVars, reviseVars, genVars, last_reply, first_done, askVars, imageVars>>
    \/ GenerateRequest /\ UNCHANGED <<parseVars, judgeVars, reviseVars, genVars, last_reply, first_done, askVars, imageVars>>
    \/ DeleteRequest /\ UNCHANGED <<parseVars, judgeVars, reviseVars, genVars, last_reply, first_done, askVars, imageVars>>

SpecInterview == InterviewInit /\ [][InterviewNext]_vars

\* two runs of generate_story_images in one process, started at any time
ImagesNext ==
    \/ (\E s \in ImageRuns, story_text \in ImageStoryTexts : ImagesStart(s, story_text)) /\ UNCHANGED <<parseVars, judgeVars, reviseVars, genVars, last_reply, first_done, askVars, appVars>>
    \/ (\E s \in ImageRuns : GuideReturn(s)) /\ UNCHANGED <<parseVars, judgeVars, reviseVars, genVars, last_reply, first_done, askVars, appVars>>
    \/ (\E s \in ImageRuns : FirstPromptReturn(s)) /\ UNCHANGED <<parseVars, judgeVars, reviseVars, genVars, last_reply, first_done, askVars, appVars>>
    \/ (\E s \in ImageRuns : PromptRaise(s)) /\ UNCHANGED <<parseVars, judgeVars, reviseVars, genVars, last_reply, first_done, askVars, appVars>>
    \/ (\E s \in ImageRuns, answered \in BOOLEAN, saved \in BOOLEAN : FirstImageReturn(s, answered, saved)) /\ UNCHANGED <<parseVars, judgeVars, reviseVars, genVars, last_reply, first_done, askVars, appVars>>
    \/ (\E s \in ImageRuns : \E k \in 1..Len(img[s].tasks) : TaskPromptReturn(s, k)) /\ UNCHANGED <<parseVars, judgeVars, reviseVars, genVars, last_reply, first_done, askVars, appVars>>
    \/ (\E s \in ImageRuns, saved \in BOOLEAN : \E k \in 1..Len(img[s].tasks) : TaskImageReturn(s, k, saved)) /\ UNCHANGED <<parseVars, judgeVars, reviseVars, genVars, last_reply, first_done, askVars, appVars>>
    \/ (\E s \in ImageRuns : ImagesGathered(s)) /\ UNCHANGED <<parseVars, judgeVars, reviseVars, genVars, last_reply, first_done, askVars, appVars>>

SpecImages == InterviewInit /\ [][ImagesNext]_vars

\* the parser on every reply of at most MaxRawLen tokens
ParseInit ==
    /\ response_text \in RepliesUpTo(MaxRawLen)
    /\ parsed = NoResult
    /\ ppc = "call"
    /\ default_response = DEFAULT_JUDGE_RESPONSE /\ aliased = {}
    /\ roster = "none" /\ tasks = NoTasks /\ jresult = IdleResult
    /\ rpc = "idle" /\ rargs = NoArgs
    /\ patched_story = <<>> /\ patch_report = <<>> /\ rcalls = <<>>
    /\ pc = "idle" /\ sanitized_input = <<>> /\ brainstorm_result = <<>>
    /\ r = 0 /\ plan_response = <<>> /\ story = <<>> /\ final_story = <<>>
    /\ i = 0 /\ audio_path = "none" /\ result = NoOutcome
    /\ execution_log = <<>> /\ asset_story = <<>>
    /\ response = <<>> /\ questions = <<>> /\ qpc = "idle"
    /\ last_reply = <<>> /\ first_done = 0
    /\ AppIdle /\ ImagesIdle

ParseNext ==
    ParseCall /\ UNCHANGED <<judgeVars, reviseVars, genVars, last_reply, first_done, askVars, appVars, imageVars>>

SpecParse == ParseInit /\ [][ParseNext]_vars

\* the parser on every JSON object of at most MaxMembers members
NormalizeInit ==
    /\ response_text \in ObjectsUpTo(MaxMembers)
    /\ parsed = NoResult
    /\ ppc = "call"
    /\ default_response = DEFAULT_JUDGE_RESPONSE /\ aliased = {}
    /\ roster = "none" /\ tasks = NoTasks /\ jresult = IdleResult
    /\ rpc = "idle" /\ rargs = NoArgs
    /\ patched_story = <<>> /\ patch_report = <<>> /\ rcalls = <<>>
    /\ pc = "idle" /\ sanitized_input = <<>> /\ brainstorm_result = <<>>
    /\ r = 0 /\ plan_response = <<>> /\ story = <<>> /\ final_story = <<>>
    /\ i = 0 /\ audio_path = "none" /\ result = NoOutcome
    /\ execution_log = <<>> /\ asset_story = <<>>
    /\ response = <<>> /\ questions = <<>> /\ qpc = "idle"
    /\ last_reply = <<>> /\ first_done = 0
    /\ AppIdle /\ ImagesIdle

SpecNormalize == NormalizeInit /\ [][ParseNext]_vars

\* a sequence of parser calls, the caller changing the verdicts it gets
ShareInit ==
    /\ response_text \in ShareReplies
    /\ parsed = NoResult
    /\ ppc = "call"
    /\ default_response = DEFAULT_JUDGE_RESPONSE /\ aliased = {}
    /\ roster = "none" /\ tasks = NoTasks /\ jresult = IdleResult
    /\ rpc = "idle" /\ rargs = NoArgs
    /\ patched_story = <<>> /\ patch_report = <<>> /\ rcalls = <<>>
    /\ pc = "idle" /\ sanitized_input = <<>> /\ brainstorm_result = <<>>
    /\ r = 0 /\ plan_response = <<>> /\ story = <<>> /\ final_story = <<>>
    /\ i = 0 /\ audio_path = "none" /\ result = NoOutcome
    /\ execution_log = <<>> /\ asset_story = <<>>
    /\ response = <<>> /\ questions = <<>> /\ qpc = "idle"
    /\ last_reply = <<>> /\ first_done = 0
    /\ AppIdle /\ ImagesIdle

ShareNext ==
    \/ ParseCall /\ UNCHANGED <<judgeVars, reviseVars, genVars, last_reply, first_done, askVars, appVars, imageVars>>
    \/ CallerAppend /\ UNCHANGED <<judgeVars, reviseVars, genVars, last_reply, first_done, askVars, appVars, imageVars>>
    \/ NextReply /\ UNCHANGED <<judgeVars, reviseVars, genVars, last_reply, first_done, askVars, appVars, imageVars>>

SpecShare == ShareInit /\ [][ShareNext]_vars

\* one aggregator call
JudgeInit ==
    /\ response_text = NoneReply /\ parsed = NoResult /\ ppc = "idle"
    /\ default_response = DEFAULT_JUDGE_RESPONSE /\ aliased = {}
    /\ roster = "none" /\ tasks = NoTasks /\ jresult = IdleResult
    /\ rpc = "idle" /\ rargs = NoArgs
    /\ patched_story = <<>> /\ patch_report = <<>> /\ rcalls = <<>>
    /\ pc = "idle" /\ sanitized_input = <<>> /\ brainstorm_result = <<>>
    /\ r = 0 /\ plan_response = <<>> /\ story = <<>> /\ final_story = <<>>
    /\ i = 0 /\ audio_path = "none" /\ result = NoOutcome
    /\ execution_log = <<>> /\ asset_story = <<>>
    /\ response = <<>> /\ questions = <<>> /\ qpc = "idle"
    /\ last_reply = <<>> /\ first_done = 0
    /\ AppIdle /\ ImagesIdle

JudgeNext ==
    \/ JudgeCall /\ UNCHANGED <<parseVars, reviseVars, genVars, last_reply, askVars, appVars, imageVars>>
    \/ JudgeEvalReturn /\ UNCHANGED <<parseVars, reviseVars, genVars, last_reply, askVars, appVars, imageVars>>
    \/ JudgeEvalRaise /\ UNCHANGED <<parseVars, reviseVars, genVars, last_reply, askVars, appVars, imageVars>>

SpecJudge == JudgeInit /\ [][JudgeNext]_vars

\* one revise_story call
ReviseInit ==
    /\ response_text = NoneReply /\ parsed = NoResult /\ ppc = "idle"
    /\ default_response = DEFAULT_JUDGE_RESPONSE /\ aliased = {}
    /\ roster = "none" /\ tasks = NoTasks /\ jresult = IdleResult
    /\ rpc = "idle" /\ rargs = NoArgs
    /\ patched_story = <<>> /\ patch_report = <<>> /\ rcalls = <<>>
    /\ pc = "idle" /\ sanitized_input = <<>> /\ brainstorm_result = <<>>
    /\ r = 0 /\ plan_response = <<>> /\ story = <<>> /\ final_story = <<>>
    /\ i = 0 /\ audio_path = "none" /\ result = NoOutcome
    /\ execution_log = <<>> /\ asset_story = <<>>
    /\ response = <<>> /\ questions = <<>> /\ qpc = "idle"
    /\ last_reply = <<>> /\ first_done = 0
    /\ AppIdle /\ ImagesIdle

ReviseNext ==
    \/ ReviseCall /\ UNCHANGED <<parseVars, judgeVars, genVars, last_reply, first_done, askVars, appVars, imageVars>>
    \/ ReviseFallbackReturn /\ UNCHANGED <<parseVars, judgeVars, genVars, first_done, askVars, appVars, imageVars>>
    \/ FallbackRaise /\ UNCHANGED <<parseVars, judgeVars, genVars, first_done, askVars, appVars, imageVars>>
    \/ ReviseSmoothReturn /\ UNCHANGED <<parseVars, judgeVars, genVars, first_done, askVars, appVars, imageVars>>
    \/ SmoothRaise /\ UNCHANGED <<parseVars, judgeVars, genVars, first_done, askVars, appVars, imageVars>>

SpecRevise == ReviseInit /\ [][ReviseNext]_vars

\* one run of generate, at its first call: "Sanitizing Input" is logged
Init ==
    /\ response_text = NoneReply /\ parsed = NoResult /\ ppc = "idle"
    /\ default_response = DEFAULT_JUDGE_RESPONSE /\ aliased = {}
    /\ roster = "none" /\ tasks = NoTasks /\ jresult = IdleResult
    /\ rpc = "idle" /\ rargs = NoArgs
    /\ patched_story = <<>> /\ patch_report = <<>> /\ rcalls = <<>>
    /\ pc = "sanitize" /\ sanitized_input = <<>> /\ brainstorm_result = <<>>
    /\ r = 0 /\ plan_response = <<>> /\ story = <<>> /\ final_story = <<>>
    /\ i = 0 /\ audio_path = "none" /\ result = NoOutcome
    /\ execution_log = <<Log("Sanitizing Input", 0)>> /\ asset_story = <<>>
    /\ response = <<>> /\ questions = <<>> /\ qpc = "idle"
    /\ last_reply = <<>> /\ first_done = 0
    /\ AppIdle /\ ImagesIdle

NextOver(replies, ideas) ==
    \/ (\E text \in RequestTexts : SanitizeReturn(text)) /\ UNCHANGED <<parseVars, first_done, askVars, appVars, imageVars>>
    \/ (\E text \in ideas : BrainstormReturn(text)) /\ UNCHANGED <<parseVars, first_done, askVars, appVars, imageVars>>
    \/ BrainstormJudged /\ UNCHANGED <<parseVars, first_done, askVars, appVars, imageVars>>
    \/ (\E text \in ideas : BrainstormRevised(text)) /\ UNCHANGED <<parseVars, first_done, askVars, appVars, imageVars>>
    \/ (\E text \in PlanTexts : PlanReturn(text)) /\ UNCHANGED <<parseVars, first_done, askVars, appVars, imageVars>>
    \/ (\E text \in StoryTexts : WriteReturn(text)) /\ UNCHANGED <<parseVars, first_done, askVars, appVars, imageVars>>
    \/ StoryJudged /\ UNCHANGED <<parseVars, first_done, askVars, appVars, imageVars>>
    \/ StoryRevised /\ UNCHANGED <<parseVars, first_done, askVars, appVars, imageVars>>
    \/ (\E path \in {"file", "none"} : AudioReturn(path)) /\ UNCHANGED <<parseVars, first_done, askVars, appVars, imageVars>>
    \/ (\E paths \in {"some", "none"} : ImagesReturn(paths)) /\ UNCHANGED <<parseVars, first_done, askVars, appVars, imageVars>>
    \/ CallRaise /\ UNCHANGED <<parseVars, first_done, askVars, appVars, imageVars>>
    \/ JudgeRaised /\ UNCHANGED <<parseVars, first_done, askVars, appVars, imageVars>>
    \/ ReviseRaised /\ UNCHANGED <<parseVars, first_done, askVars, appVars, imageVars>>
    \/ GenEvalReturn(replies) /\ UNCHANGED <<parseVars, reviseVars, genVars, last_reply, first_done, askVars, appVars, imageVars>>
    \/ GenEvalRaise /\ UNCHANGED <<parseVars, reviseVars, genVars, last_reply, first_done, askVars, appVars, imageVars>>
    \/ GenFallbackReturn /\ UNCHANGED <<parseVars, judgeVars, genVars, first_done, askVars, appVars, imageVars>>
    \/ GenFallbackRaise /\ UNCHANGED <<parseVars, judgeVars, genVars, first_done, askVars, appVars, imageVars>>
    \/ GenSmoothReturn /\ UNCHANGED <<parseVars, judgeVars, genVars, first_done, askVars, appVars, imageVars>>
    \/ GenSmoothRaise /\ UNCHANGED <<parseVars, judgeVars, genVars, first_done, askVars, appVars, imageVars>>

Next == NextOver(GenReplies, IdeaTexts)

Spec == Init /\ [][Next]_vars

\* every outstanding call eventually returns or raises
LiveNext == NextOver(LiveReplies, LiveIdeaTexts)

SpecLive == Init /\ [][LiveNext]_vars /\ WF_vars(LiveNext)

-----------------------------------------------------------------------------
(* Properties of the aggregators (SpecJudge) *)

DetailScore(k) == jresult.verdict.details[k].res.score

ScoresInRange ==
    \A k \in 1..NAxes : DetailScore(k).ty = "int" /\ DetailScore(k).n \in 1..5

ScoreTuple == [k \in 1..NAxes |-> DetailScore(k).n]

\* C3: for story axis scores (safety, comprehensibility, writing, thematic)
\* in 1..5 the aggregate pass is true exactly when safety = 5 and each of the
\* other three is at least 4; (5,5,5,3) and (4,5,5,5) fail, (5,4,4,4) passes.
C3_StoryPassRule ==
    (jresult.st = "returned" /\ roster = "story" /\ ScoresInRange) =>
        /\ jresult.verdict.pass <=>
              (ScoreTuple[1] = 5 /\ \A k \in 2..NAxes : ScoreTuple[k] >= 4)
        /\ ScoreTuple = <<5, 5, 5, 3>> => ~jresult.verdict.pass
        /\ ScoreTuple = <<4, 5, 5, 5>> => ~jresult.verdict.pass
        /\ ScoreTuple = <<5, 4, 4, 4>> => jresult.verdict.pass

C3_Witness ==
    /\ jresult.st = "returned" /\ roster = "story"
    /\ ScoresInRange /\ ScoreTuple = <<5, 4, 4, 4>>
    /\ jresult.verdict.pass

\* C4: for brainstorm axis scores (concreteness, uniqueness, sensory,
\* safety) in 1..5 the aggregate pass is true exactly when all four scores
\* are at least 4.
C4_BrainstormPassRule ==
    (jresult.st = "returned" /\ roster = "brainstorm" /\ ScoresInRange) =>
        /\ jresult.verdict.pass <=> (\A k \in 1..NAxes : ScoreTuple[k] >= 4)
        /\ ScoreTuple = <<4, 4, 4, 4>> => jresult.verdict.pass
        /\ ScoreTuple = <<3, 4, 4, 4>> => ~jresult.verdict.pass
        /\ ScoreTuple = <<4, 3, 4, 4>> => ~jresult.verdict.pass

C4_Witness ==
    /\ jresult.st = "returned" /\ roster = "brainstorm"
    /\ ScoresInRange /\ ScoreTuple = <<5, 4, 5, 4>>
    /\ jresult.verdict.pass

\* C5: if one evaluator call of a roster throws, the aggregation still
\* completes: it does not raise, and once the other three have returned the
\* verdict carries all four axes, the failed one as the fail-closed default.
C5_ThrowIsolated ==
    (\E k \in 1..NAxes : tasks[k].st = "raised") =>
        /\ jresult.st # "raised"
        /\ (\A k \in 1..NAxes : tasks[k].st # "pending") =>
              /\ jresult.st = "returned"
              /\ Len(jresult.verdict.details) = NAxes
              /\ \A k \in 1..NAxes :
                    tasks[k].st = "raised" =>
                        jresult.verdict.details[k].res = DEFAULT_JUDGE_RESPONSE

\* C7: malformed evaluator output never aborts a judge round: when all four
\* evaluator calls have returned, the aggregator returns a verdict (pass and
\* average computed) with a verdict for every axis.
C7_MalformedNeverAborts ==
    (jresult.st # "idle" /\ \A k \in 1..NAxes : tasks[k].st = "done") =>
        /\ jresult.st = "returned"
        /\ Len(jresult.verdict.details) = NAxes
        /\ jresult.verdict.n = NAxes

VerdictPatches == jresult.verdict.patches

\* the violations of evaluator k whose trimmed quote and fix are equal
NoOpViolations(k) ==
    {n \in 1..Len(tasks[k].res.violations) :
        Strip(tasks[k].res.violations[n].quote)
          = Strip(tasks[k].res.violations[n].fix)}

\* C15: every patch of an aggregate verdict has a non-empty trimmed quote, a
\* non-empty trimmed fix and a quote different from its fix; a violation
\* whose quote equals its fix after trimming yields no patch.
C15_PatchesWellFormed ==
    jresult.st = "returned" =>
        /\ \A n \in 1..Len(VerdictPatches) :
              /\ Strip(VerdictPatches[n].quote) # <<>>
              /\ Strip(VerdictPatches[n].fix) # <<>>
              /\ Strip(VerdictPatches[n].quote) # Strip(VerdictPatches[n].fix)
        /\ \A k \in 1..NAxes : \A m \in NoOpViolations(k) :
              ~\E n \in 1..Len(VerdictPatches) :
                  /\ VerdictPatches[n].quote
                        = Strip(tasks[k].res.violations[m].quote)
                  /\ VerdictPatches[n].fix
                        = Strip(tasks[k].res.violations[m].fix)

C15_Witness ==
    /\ jresult.st = "returned"
    /\ NoOpViolations(1) # {}
    /\ Len(tasks[2].res.violations) = 2
    /\ Len(VerdictPatches) = 1
    /\ VerdictPatches[1].quote = <<"b">> /\ VerdictPatches[1].fix = <<"c">>

AxisNames == IF roster = "story" THEN StoryAxes ELSE BrainstormAxes

AxisIndex(name) == CHOOSE k \in 1..NAxes : AxisNames[k] = name

AxisScore(k) == tasks[k].res.score.n

\* the violations of evaluator k that are to become patches, in their order
AxisPatches(k) ==
    LET usable(v) == /\ Strip(v.quote) # <<>> /\ Strip(v.fix) # <<>>
                     /\ Strip(v.quote) # Strip(v.fix)
        kept == SelectSeq(tasks[k].res.violations, usable)
    IN  [n \in 1..Len(kept) |->
            [judge |-> AxisNames[k], quote |-> Strip(kept[n].quote),
             reason |-> Strip(kept[n].reason), fix |-> Strip(kept[n].fix)]]

\* C16: whatever the order in which the four evaluator calls of one
\* aggregation complete, each result stands under its own axis name, the pass
\* verdict is the pass rule on the scores by axis, and the patches are in
\* roster axis order and, within an axis, in the order of its violations.
C16_CompletionOrderIrrelevant ==
    jresult.st = "returned" =>
        /\ \A k \in 1..NAxes :
              /\ jresult.verdict.details[k].name = AxisNames[k]
              /\ jresult.verdict.details[k].res = tasks[k].res
        /\ jresult.verdict.pass <=>
              IF roster = "story"
              THEN AxisScore(1) = 5 /\ \A k \in 2..NAxes : AxisScore(k) >= 4
              ELSE \A k \in 1..NAxes : AxisScore(k) >= 4
        /\ VerdictPatches =
              AxisPatches(1) \o AxisPatches(2) \o AxisPatches(3) \o AxisPatches(4)

C16_Witness ==
    /\ jresult.st = "returned"
    /\ first_done = 4
    /\ Len(tasks[2].res.violations) = 2
    /\ Len(tasks[4].res.violations) = 1
    /\ Len(VerdictPatches) = 3
    /\ VerdictPatches[1].judge = AxisNames[2]
    /\ VerdictPatches[1].quote = <<"a">>
    /\ VerdictPatches[2].judge = AxisNames[2]
    /\ VerdictPatches[3].judge = AxisNames[4]

\* the reply does not decode to a JSON object after fence-stripping and
\* brace-slicing
NotJsonObject(resp) ==
    \/ resp.none
    \/ ~JsonLoads(extract_json_object(resp.text)).ok
    \/ JsonLoads(extract_json_object(resp.text)).val.ty # "obj"

\* the reply of evaluator k was not parsed to a verdict with a score of its
\* own: it is no JSON object, or the object has no score
Untrusted(k) ==
    /\ tasks[k].st = "done"
    /\ \/ NotJsonObject(tasks[k].resp_text)
       \/ ~HasKey(JsonLoads(extract_json_object(tasks[k].resp_text.text)).val,
                  "score")

\* C29: if the reply of at least one evaluator of a round cannot be parsed,
\* or lacks a score, that axis is scored 1 and the aggregate verdict of
\* either roster is pass = False.
C29_UntrustedNeverPasses ==
    jresult.st = "returned" =>
        \A k \in 1..NAxes :
            Untrusted(k) =>
                /\ jresult.verdict.details[k].res.score = JInt(1)
                /\ ~jresult.verdict.pass

C29_Witness ==
    /\ jresult.st = "returned" /\ roster = "brainstorm"
    /\ tasks[3].resp_text = Reply(<<"p">>) /\ Untrusted(3)
    /\ \A k \in {1, 2, 4} : tasks[k].resp_text = Obj(<<"score:5">>)
    /\ ~jresult.verdict.pass

\* violation m of evaluator k passes the filter
Usable(k, m) ==
    LET v == tasks[k].res.violations[m]
    IN  /\ Strip(v.quote) # <<>> /\ Strip(v.fix) # <<>>
        /\ Strip(v.quote) # Strip(v.fix)

UsableViolations(k) ==
    {m \in 1..Len(tasks[k].res.violations) : Usable(k, m)}

\* the violations of evaluator k that read like its violation m
SameViolations(k, m) ==
    {n \in UsableViolations(k) :
        /\ Strip(tasks[k].res.violations[n].quote)
              = Strip(tasks[k].res.violations[m].quote)
        /\ Strip(tasks[k].res.violations[n].fix)
              = Strip(tasks[k].res.violations[m].fix)}

\* the patches of axis k that read like violation m of evaluator k
PatchesFor(k, m) ==
    {n \in 1..Len(VerdictPatches) :
        /\ VerdictPatches[n].judge = AxisNames[k]
        /\ VerdictPatches[n].quote = Strip(tasks[k].res.violations[m].quote)
        /\ VerdictPatches[n].fix = Strip(tasks[k].res.violations[m].fix)}

\* C30: the aggregate patch list holds one patch, tagged with its axis, for
\* every violation that passes the filter, and no other: a quote/fix pair
\* reported by two axes, or twice by one axis, yields as many patches as it
\* was reported.
C30_NoDeduplication ==
    jresult.st = "returned" =>
        /\ \A n \in 1..Len(VerdictPatches) :
              \E k \in 1..NAxes : VerdictPatches[n].judge = AxisNames[k]
        /\ \A k \in 1..NAxes : \A m \in UsableViolations(k) :
              Cardinality(PatchesFor(k, m)) = Cardinality(SameViolations(k, m))
        /\ Len(VerdictPatches) =
              Cardinality(UsableViolations(1)) + Cardinality(UsableViolations(2))
              + Cardinality(UsableViolations(3)) + Cardinality(UsableViolations(4))

C30_Witness ==
    /\ jresult.st = "returned"
    /\ Len(VerdictPatches) = 4
    /\ Cardinality(SameViolations(1, 1)) = 2
    /\ \A n \in 1..3 : /\ VerdictPatches[n].quote = <<"a">>
                       /\ VerdictPatches[n].fix = <<"b">>
    /\ VerdictPatches[2].judge = AxisNames[1]
    /\ VerdictPatches[3].judge = AxisNames[2]

-----------------------------------------------------------------------------
(* Properties of the parser (SpecParse) *)

\* C6: parse_judge_response never raises, and for every reply that is not
\* valid JSON after fence-stripping and brace-slicing (None and non-object
\* JSON included) it returns the default: score 1, empty violations.
C6_ParserFailClosed ==
    ppc = "returned" =>
        /\ ~parsed.raised
        /\ NotJsonObject(response_text) =>
              /\ parsed.data = DEFAULT_JUDGE_RESPONSE
              /\ parsed.data.score = JInt(1)
              /\ parsed.data.violations = <<>>

C6_Witness ==
    /\ ppc = "returned"
    /\ ~response_text.none
    /\ Find(response_text.text, "{") # 0
    /\ Find(response_text.text, "FENCE_JSON") # 0
    /\ NotJsonObject(response_text)
    /\ parsed.data = DEFAULT_JUDGE_RESPONSE

\* C8: every verdict the parser returns has an integer score between 1 and 5
C8_ScoreInRange ==
    ppc = "returned" =>
        parsed.data.score.ty = "int" /\ parsed.data.score.n \in 1..5

-----------------------------------------------------------------------------
(* Properties of the normalisation of violations (SpecNormalize) *)

\* the object the reply decodes to
Decoded == JsonLoads(extract_json_object(response_text.text)).val

\* its violations member, a list when absent
DecodedViolations ==
    IF HasKey(Decoded, "violations")
    THEN Decoded.l[CHOOSE at \in 1..Len(Decoded.l) :
                      /\ Decoded.l[at].k = "violations"
                      /\ \A b \in (at + 1)..Len(Decoded.l) :
                            Decoded.l[b].k # "violations"].v
    ELSE JList(<<>>)

IsMapping(v) == v.ty = "obj"

\* the mapping elements of the decoded list, in their order
DecodedMappings == SelectSeq(DecodedViolations.l, IsMapping)

ViolationFields == {"quote", "reason", "fix"}

\* the decoded value of field f of mapping v, a string when the key is absent
FieldValue(v, f) ==
    IF \E at \in 1..Len(v.l) : v.l[at].k = f
    THEN v.l[CHOOSE at \in 1..Len(v.l) :
                /\ v.l[at].k = f
                /\ \A b \in (at + 1)..Len(v.l) : v.l[b].k # f].v
    ELSE JStr(<<>>)

IsTrimmed(t) == t = <<>> \/ (t[1] # " " /\ t[Len(t)] # " ")

ParsedObject == ppc = "returned" /\ ~NotJsonObject(response_text)

\* C23: for a decoded JSON object the parsed violations are empty whenever
\* the decoded violations value is not a list; for a list, its mapping
\* elements are kept in their order, each as the record of the three string
\* fields quote, reason and fix, and every other element is dropped without
\* an error.
C23_ViolationsNormalised ==
    ParsedObject =>
        /\ ~parsed.raised
        /\ DecodedViolations.ty # "list" => parsed.data.violations = <<>>
        /\ DecodedViolations.ty = "list" =>
              /\ Len(parsed.data.violations) = Len(DecodedMappings)
              /\ \A k \in 1..Len(DecodedMappings) :
                    /\ DOMAIN parsed.data.violations[k] = ViolationFields
                    /\ \A f \in ViolationFields :
                          /\ parsed.data.violations[k][f] \in Seq(STRING)
                          /\ FieldValue(DecodedMappings[k], f).ty = "str" =>
                                parsed.data.violations[k][f]
                                  = Strip(FieldValue(DecodedMappings[k], f).s)

C23_Witness ==
    /\ ParsedObject
    /\ DecodedViolations.ty = "list"
    /\ Len(DecodedViolations.l) = 3
    /\ Len(parsed.data.violations) = 2
    /\ parsed.data.violations[1].quote = <<"a">>
    /\ parsed.data.violations[2].quote = <<"c">>
    /\ Len(Decoded.l) = 2 /\ Decoded.l[1].k = "violations"
    /\ Decoded.l[1].v.ty = "null"

\* C24: in every parsed violation each of quote, reason and fix is a trimmed
\* string, and is the empty string whenever the key is absent or its decoded
\* value is not a string.
C24_NonStringsBecomeEmpty ==
    (ParsedObject /\ DecodedViolations.ty = "list") =>
        \A k \in 1..Len(parsed.data.violations) : \A f \in ViolationFields :
            /\ IsTrimmed(parsed.data.violations[k][f])
            /\ FieldValue(DecodedMappings[k], f).ty # "str" =>
                  parsed.data.violations[k][f] = <<>>

-----------------------------------------------------------------------------
(* Properties of a sequence of parser calls (SpecShare) *)

\* C25: the verdict returned on a parse failure is a deep copy of the
\* default: it holds none of the default's mutable objects, and whatever a
\* caller did to the verdicts it got before, a failed parse returns the
\* default as it was defined.
C25_DefaultDeepCopied ==
    (ppc = "returned" /\ NotJsonObject(response_text)) =>
        /\ aliased = {}
        /\ parsed.data = DEFAULT_JUDGE_RESPONSE

-----------------------------------------------------------------------------
(* Properties of generate_questions (SpecAsk) *)

\* the lines of the reply, each without the white space around it
AskedLines ==
    LET lines == SplitLines(StripWs(response))
    IN  [k \in 1..Len(lines) |-> StripWs(lines[k])]

\* the first index of line that holds no numbering character (0: none)
BodyStart(line) ==
    IF \E k \in 1..Len(line) : line[k] \notin NumberingChars
    THEN CHOOSE k \in 1..Len(line) :
            /\ line[k] \notin NumberingChars
            /\ \A m \in 1..(k - 1) : line[m] \in NumberingChars
    ELSE 0

\* line parses as a question: it starts with a digit or a dash and a question
\* mark follows its numbering
IsQuestionLine(line) ==
    /\ line # <<>>
    /\ line[1] \in DigitChars \cup {"-"}
    /\ BodyStart(line) # 0
    /\ \E k \in BodyStart(line)..Len(line) : line[k] = "?"

QuestionLines == SelectSeq(AskedLines, IsQuestionLine)

\* the question of a question line: the line after its numbering
QuestionOf(line) == SubSeq(line, BodyStart(line), Len(line))

\* C28: generate_questions returns exactly two questions for every reply:
\* the questions of the first two lines that parse as questions when there
\* are at least two such lines, and the two fixed fallback questions
\* otherwise.
C28_ExactlyTwoQuestions ==
    qpc = "returned" =>
        /\ Len(questions) = 2
        /\ IF Len(QuestionLines) >= 2
           THEN questions = <<QuestionOf(QuestionLines[1]),
                              QuestionOf(QuestionLines[2])>>
           ELSE questions = FallbackQuestions

C28_Witness ==
    /\ qpc = "returned"
    /\ Len(QuestionLines) = 3
    /\ questions = <<<<"z", "?">>, <<"x", "?">>>>
    /\ QuestionLines[3] = <<"1", ".", " ", "w", "?">>

-----------------------------------------------------------------------------
(* Properties of revise_story (SpecRevise) *)

FallbackIssued == \E k \in 1..Len(rcalls) : rcalls[k].kind = "rewrite"

NotApplied == Cardinality({k \in 1..Len(patch_report) : ~patch_report[k].applied})

\* C10: revise_story issues the rewrite fallback exactly when the patch list
\* is non-empty and strictly more than 40% of the patches did not apply:
\* 3 of 5 failing triggers it, 1 of 5 and exactly 2 of 5 do not, and an empty
\* patch list never does.
C10_FallbackThreshold ==
    rpc # "idle" =>
        /\ Len(patch_report) = Len(rargs.patches)
        /\ FallbackIssued <=>
              (Len(rargs.patches) > 0 /\ 5 * NotApplied > 2 * Len(rargs.patches))
        /\ (Len(rargs.patches) = 5 /\ NotApplied = 3) => FallbackIssued
        /\ (Len(rargs.patches) = 5 /\ NotApplied \in {1, 2}) => ~FallbackIssued
        /\ rargs.patches = <<>> => ~FallbackIssued

C10_Witness ==
    /\ rpc = "returned"
    /\ Len(rargs.patches) = 5
    /\ NotApplied = 2
    /\ ~FallbackIssued

\* quote occurs in text at index at
OccursAt(text, quote, at) ==
    /\ at + Len(quote) - 1 <= Len(text)
    /\ SubSeq(text, at, at + Len(quote) - 1) = quote

Occurs(text, quote) == \E at \in 1..Len(text) : OccursAt(text, quote, at)

\* text with the first occurrence of quote, and nothing else, replaced by fix
FirstReplaced(text, quote, fix) ==
    LET at == CHOOSE a \in 1..Len(text) :
                  /\ OccursAt(text, quote, a)
                  /\ \A b \in 1..(a - 1) : ~OccursAt(text, quote, b)
    IN  SubSeq(text, 1, at - 1) \o fix \o SubSeq(text, at + Len(quote), Len(text))

\* the text the first k patches of the call are required to produce
RECURSIVE TextAfter(_)
TextAfter(k) ==
    IF k = 0 THEN rargs.current_story
    ELSE LET before == TextAfter(k - 1)
             p == rargs.patches[k]
         IN  IF p.quote # <<>> /\ Occurs(before, p.quote)
             THEN FirstReplaced(before, p.quote, p.fix)
             ELSE before

\* no model call of this revise_story call has returned yet: patched_story is
\* still the result of _apply_patches_deterministically
NoReplyYet ==
    \/ rcalls = <<>>
    \/ Len(rcalls) = 1 /\ rpc \in {"fallback", "smoothing", "raised"}

AtMost40PercentFailed == 5 * NotApplied <= 2 * Len(rargs.patches)

\* C11 as stated: when at most 40% of the patches fail to find their anchor,
\* the text revise_story returns is exactly the deterministically patched
\* text, with no model output substituted for it.
C11_ReturnsDeterministicText ==
    (rpc = "returned" /\ AtMost40PercentFailed) =>
        patched_story = TextAfter(Len(rargs.patches))

\* C11 amended: when at most 40% of the patches fail, no rewrite is issued
\* and the deterministically patched text is handed on whole: returned as it
\* is without the smoothing pass, and otherwise given as the story to the one
\* smoothing call, whose reply is what revise_story returns.
C11_DeterministicTextHandedOn ==
    (rpc # "idle" /\ AtMost40PercentFailed) =>
        /\ ~FallbackIssued
        /\ IF rargs.do_smoothing_pass
           THEN /\ Len(rcalls) = 1
                /\ rcalls[1].kind = "smoothing"
                /\ rcalls[1].story = TextAfter(Len(rargs.patches))
                /\ rpc = "returned" => patched_story = last_reply
           ELSE /\ rcalls = <<>>
                /\ rpc = "returned"
                /\ patched_story = TextAfter(Len(rargs.patches))

C11_Witness ==
    /\ rpc = "returned"
    /\ rargs.do_smoothing_pass
    /\ Len(rargs.patches) = 5 /\ NotApplied = 1
    /\ rcalls[1].story = TextAfter(5)
    /\ rcalls[1].story # rargs.current_story
    /\ patched_story = last_reply
    /\ patched_story # TextAfter(5)

\* C12: when the fallback is triggered the rewrite call receives the story
\* revise_story was given (not the partially patched text) and the full patch
\* list, and the text carried forward is the reply of the model: the rewrite
\* reply goes whole into the smoothing call or the return value.
C12_FallbackEitherOr ==
    FallbackIssued =>
        /\ rcalls[1].kind = "rewrite"
        /\ rcalls[1].story = rargs.current_story
        /\ rcalls[1].patches = rargs.patches
        /\ rpc \in {"smoothing", "returned"} => patched_story = last_reply
        /\ rpc = "smoothing" =>
              Len(rcalls) = 2 /\ rcalls[2].story = last_reply

C12_Witness ==
    /\ FallbackIssued
    /\ rpc = "smoothing"
    /\ TextAfter(Len(rargs.patches)) # rargs.current_story
    /\ rcalls[1].story = rargs.current_story
    /\ rcalls[2].story = last_reply
    /\ last_reply # TextAfter(Len(rargs.patches))

\* C13: the patches are processed in the supplied order against the
\* cumulative text: patch k is applied iff its quote is non-empty and occurs
\* in the text the patches before it produced, exactly its first occurrence
\* is then replaced by fix, and a patch that is not applied leaves the text
\* as it was.
C13_InOrderFirstOccurrence ==
    rpc # "idle" =>
        /\ Len(patch_report) = Len(rargs.patches)
        /\ \A k \in 1..Len(rargs.patches) :
              /\ patch_report[k].applied <=>
                    /\ rargs.patches[k].quote # <<>>
                    /\ Occurs(TextAfter(k - 1), rargs.patches[k].quote)
              /\ ~patch_report[k].applied => TextAfter(k) = TextAfter(k - 1)
        /\ NoReplyYet => patched_story = TextAfter(Len(rargs.patches))

C13_Witness ==
    /\ rpc # "idle" /\ NoReplyYet
    /\ rargs.current_story = <<"a", "b", "a">>
    /\ Len(rargs.patches) = 3
    /\ patch_report[1].applied /\ patch_report[2].applied
    /\ rargs.patches[1].quote = <<"a">> /\ rargs.patches[2].quote = <<"b">>
    /\ ~patch_report[3].applied
    /\ patched_story = <<"c", "b", "a">>

SamePatchTwice(k) ==
    /\ rargs.patches[k].quote = rargs.patches[k + 1].quote
    /\ rargs.patches[k].fix = rargs.patches[k + 1].fix
    /\ patch_report[k].applied

\* C14 as stated: a patch applied a second time, to the text it has already
\* patched, is reported applied=False and leaves the text unchanged.
C14_SecondApplicationFails ==
    rpc # "idle" =>
        \A k \in 1..(Len(rargs.patches) - 1) :
            SamePatchTwice(k) =>
                /\ ~patch_report[k + 1].applied
                /\ TextAfter(k + 1) = TextAfter(k)

\* C14 amended: each application replaces one occurrence; the second
\* application of a patch is reported applied=False and leaves the text
\* unchanged exactly when the once-patched text no longer contains the quote,
\* and otherwise replaces the first occurrence that is left.
C14_SecondApplicationByOccurrence ==
    rpc # "idle" =>
        \A k \in 1..(Len(rargs.patches) - 1) :
            SamePatchTwice(k) =>
                /\ patch_report[k + 1].applied <=>
                      Occurs(TextAfter(k), rargs.patches[k].quote)
                /\ (k + 1 = Len(rargs.patches) /\ NoReplyYet) =>
                      patched_story =
                        IF Occurs(TextAfter(k), rargs.patches[k].quote)
                        THEN FirstReplaced(TextAfter(k), rargs.patches[k].quote,
                                           rargs.patches[k].fix)
                        ELSE TextAfter(k)

C14_Witness ==
    /\ rpc # "idle" /\ NoReplyYet
    /\ rargs.current_story = <<"a", "b", "a">>
    /\ Len(rargs.patches) = 3
    /\ SamePatchTwice(1) /\ SamePatchTwice(2)
    /\ patch_report[2].applied /\ ~patch_report[3].applied
    /\ patched_story = <<"b", "b", "b">>

-----------------------------------------------------------------------------
(* Properties of generate (Spec, SpecLive) *)

LastStoryVerdict == roster = "story" /\ jresult.st = "returned"

\* the refinement loop was left without a passing verdict and nothing raised
\* inside it
Exhausted ==
    /\ LastStoryVerdict
    /\ ~jresult.verdict.pass
    /\ \/ pc \in {"audio", "images"}
       \/ pc = "done" /\ result.error \notin {"judge", "revise"}

\* C1: if every story judge round fails, the loop runs exactly 10 judge
\* rounds and stops, and generate goes on to return a successful result whose
\* story text is non-null and is the output of the last (10th) revision.
C1_ExhaustionDegrades ==
    Exhausted =>
        /\ i + 1 = max_iterations
        /\ story = patched_story
        /\ final_story = patched_story
        /\ final_story \in StoryTexts
        /\ (pc = "done" /\ result.error = "none") =>
              /\ result.st = "success"
              /\ result.story_text = patched_story

C1_Witness ==
    /\ Exhausted
    /\ pc = "done"
    /\ result.st = "success"
    /\ result.story_text = patched_story
    /\ i = 9

\* C2: provided every model call returns or raises, every run of generate
\* reaches a terminal result, after at most 5 brainstorm judge rounds and at
\* most 10 story judge rounds, whatever the verdicts.
C2_Terminates ==
    /\ <>(pc = "done" /\ result.st # "none")
    /\ [](r + 1 <= BrainstormRounds /\ i + 1 <= max_iterations)

C2_Witness ==
    /\ pc = "done"
    /\ result.st = "success"
    /\ r + 1 = BrainstormRounds
    /\ i + 1 = max_iterations

Comprehensibility == jresult.verdict.details[2].res.score.n

\* C9 as stated: a passing verdict is not accepted before any revision has
\* occurred unless the comprehensibility score is 5.
C9_FirstRoundNeedsRevision ==
    (LastStoryVerdict /\ jresult.verdict.pass /\ pc = "audio" /\ i = 0) =>
        Comprehensibility = 5

\* C9 amended: the story loop accepts every passing verdict at once, on the
\* first round as on any later one and whatever the comprehensibility score;
\* a revision is started only by a failing verdict.
C9_PassAcceptedAtOnce ==
    [][/\ (pc = "s_judge" /\ jresult.st = "returned" /\ jresult.verdict.pass) =>
             /\ pc' = "audio"
             /\ final_story' = story
             /\ story' = story
             /\ rpc' = rpc
       /\ (pc = "s_judge" /\ pc' = "s_revise") => ~jresult.verdict.pass
      ]_vars

C9_Witness ==
    /\ LastStoryVerdict
    /\ jresult.verdict.pass
    /\ pc = "audio"
    /\ i = 0
    /\ rpc = "idle"
    /\ Comprehensibility = 4
    /\ final_story = story

\* the brainstorm loop was left without a passing verdict
BrainstormExhausted ==
    /\ pc = "plan"
    /\ roster = "brainstorm" /\ jresult.st = "returned"
    /\ ~jresult.verdict.pass

\* C17: if all 5 brainstorm judge rounds fail the pipeline does not fail: when
\* the 5th revision call returns, generate goes on to planning, and the
\* brainstorm artifact it plans with is the output of that revision call.
C17_BrainstormExhaustionDegrades ==
    /\ [](BrainstormExhausted =>
            /\ r + 1 = BrainstormRounds
            /\ brainstorm_result = Strip(last_reply))
    /\ [][(pc = "b_revise" /\ r + 1 = BrainstormRounds /\ pc' # "done") =>
             /\ pc' = "plan"
             /\ brainstorm_result' = Strip(last_reply')
             /\ result' = NoOutcome
          ]_vars

C17_Witness ==
    /\ BrainstormExhausted
    /\ r = 4
    /\ last_reply = <<"j", " ">>
    /\ brainstorm_result = <<"j">>

PassVerdict == jresult.st = "returned" /\ jresult.verdict.pass

\* C18: in both loops the first passing verdict ends the loop at once: no
\* revision follows it, no further judge round of that loop runs, and the
\* artifact carried downstream is the text the passing round judged.
C18_PassEndsLoop ==
    [][/\ (pc = "b_judge" /\ PassVerdict) =>
             /\ pc' = "plan"
             /\ brainstorm_result' = brainstorm_result
             /\ \A k \in 1..NAxes : tasks[k].arg = brainstorm_result
             /\ last_reply' = last_reply
       /\ (pc = "s_judge" /\ PassVerdict) =>
             /\ pc' = "audio"
             /\ final_story' = story
             /\ \A k \in 1..NAxes : tasks[k].arg = story
             /\ rpc' = "idle" /\ rcalls' = <<>>
             /\ last_reply' = last_reply
       /\ pc \in {"plan", "write", "s_judge", "s_revise", "audio", "images",
                  "done"} => pc' \notin {"b_judge", "b_revise"}
       /\ pc \in {"audio", "images", "done"} => pc' \notin {"s_judge", "s_revise"}
      ]_vars

C18_Witness ==
    /\ pc = "plan"
    /\ roster = "brainstorm" /\ PassVerdict
    /\ r = 1
    /\ \A k \in 1..NAxes : tasks[k].arg = brainstorm_result
    /\ brainstorm_result = Strip(last_reply)

RoundStarts == jresult.st # "running" /\ jresult'.st = "running"

\* C19: no judge round starts before the revision of the round before it has
\* completed, and the first story round starts only after the brainstorm
\* loop has ended, passed or exhausted.
C19_RoundsSequential ==
    /\ [](jresult.st = "running" =>
            /\ pc \in {"b_judge", "s_judge"}
            /\ rpc = "idle"
            /\ roster = IF pc = "b_judge" THEN "brainstorm" ELSE "story")
    /\ [][RoundStarts =>
             \/ pc = "brainstorm" /\ roster' = "brainstorm" /\ r' = 0
             \/ /\ pc = "b_revise" /\ roster' = "brainstorm" /\ r' = r + 1
                /\ brainstorm_result' = Strip(last_reply')
                /\ \A k \in 1..NAxes : tasks'[k].arg = brainstorm_result'
             \/ /\ pc = "write" /\ roster' = "story" /\ i' = 0
                /\ roster = "brainstorm" /\ jresult.st = "returned"
                /\ jresult.verdict.pass \/ r + 1 = BrainstormRounds
             \/ /\ pc = "s_revise" /\ roster' = "story" /\ i' = i + 1
                /\ rpc = "returned"
                /\ \A k \in 1..NAxes : tasks'[k].arg = patched_story
          ]_vars

C19_Witness ==
    /\ pc = "s_judge" /\ jresult.st = "running"
    /\ i = 1 /\ r = 4
    /\ rpc = "idle"
    /\ \A k \in 1..NAxes : tasks[k].arg = patched_story
    /\ tasks[1].st = "pending" /\ tasks[3].st = "done"

AllReturned == \A k \in 1..NAxes : tasks[k].st = "done"

\* C20: an aggregate verdict is produced, and the loop's pass check is made,
\* only after all four evaluator calls of the round have returned.
C20_VerdictAfterAllReturned ==
    /\ [](jresult.st = "returned" => AllReturned)
    /\ [][(pc \in {"b_judge", "s_judge"}
           /\ pc' \in {"plan", "b_revise", "audio", "s_revise"}) =>
             /\ AllReturned
             /\ jresult.st = "returned"
          ]_vars

C20_Witness ==
    /\ pc = "s_revise"
    /\ roster = "story" /\ jresult.st = "returned"
    /\ AllReturned
    /\ ~jresult.verdict.pass
    /\ DetailScore(1) = JInt(3) /\ DetailScore(4) = JInt(5)

\* an evaluator call of the current round has not returned yet
Outstanding == \E k \in 1..NAxes : tasks[k].st = "pending"

\* the working artifact of the loop that is running
WorkingArtifact == IF roster = "brainstorm" THEN brainstorm_result ELSE story

\* C21: within one round the four evaluators are given the same text, the
\* working artifact of the loop; the working artifact is written only by the
\* loop between rounds: never while an evaluator call of the round is
\* outstanding, and never by a step of an evaluator.
C21_SnapshotPerRound ==
    /\ [](roster # "none" =>
            \A k \in 1..NAxes : tasks[k].arg = tasks[1].arg)
    /\ []((pc \in {"b_judge", "s_judge"}) =>
            \A k \in 1..NAxes : tasks[k].arg = WorkingArtifact)
    /\ [][/\ Outstanding =>
                /\ story' = story
                /\ brainstorm_result' = brainstorm_result
                /\ \A k \in 1..NAxes : tasks'[k].arg = tasks[k].arg
          /\ tasks' # tasks /\ roster' = roster /\ jresult.st = "running" =>
                /\ story' = story
                /\ brainstorm_result' = brainstorm_result
          /\ (story' # story \/ brainstorm_result' # brainstorm_result) =>
                /\ pc \in {"brainstorm", "b_revise", "write", "s_revise"}
                /\ ~Outstanding
         ]_vars

C21_Witness ==
    /\ pc = "s_judge" /\ i = 1
    /\ tasks[1].st = "done" /\ tasks[2].st = "pending"
    /\ tasks[3].st = "done" /\ tasks[4].st = "pending"
    /\ \A k \in 1..NAxes : tasks[k].arg = story
    /\ story = patched_story

\* generate is waiting on a model call it issued itself
AwaitsModelCall == pc \in {"sanitize", "brainstorm", "b_revise", "plan", "write"}

\* a model call of revise_story has raised
RevisionRaised == pc = "s_revise" /\ rpc = "raised"

\* the step in which such a call raises into the handler of generate
ModelCallFails == (AwaitsModelCall \/ RevisionRaised) /\ pc' = "done"

\* nothing of a later stage is run: every local keeps its value
NoLaterStage ==
    UNCHANGED <<sanitized_input, brainstorm_result, r, plan_response, story,
                final_story, i, audio_path, asset_story, judgeVars, reviseVars,
                last_reply>>

\* C22 as stated: when a model call of sanitize, brainstorm, plan, write or a
\* revision throws, generate returns a failure result with the error message
\* and exactly the log entries accumulated before the failure.
C22_LogAsBeforeFailure ==
    [][ModelCallFails =>
          /\ result'.st = "failure" /\ result'.error # "none"
          /\ execution_log' = execution_log
          /\ NoLaterStage
      ]_vars

\* C22 amended: the call is not retried and generate returns at once a
\* failure result with the error message; its log is the log accumulated
\* before the failure followed by one ERROR entry carrying that message; no
\* later stage runs and nothing follows the return.
C22_FailureResult ==
    /\ [][/\ ModelCallFails =>
                /\ result'.st = "failure" /\ result'.error # "none"
                /\ execution_log' = Append(execution_log, LogError(result'.error))
                /\ NoLaterStage
          /\ (rpc \in {"fallback", "smoothing"} /\ rpc' = "raised") =>
                rcalls' = rcalls /\ UNCHANGED <<genVars, judgeVars>>
          /\ RevisionRaised => ModelCallFails
          /\ pc = "done" => UNCHANGED vars
         ]_vars
    /\ []((pc = "done" /\ result.st = "failure") =>
            \A k \in 1..(Len(execution_log) - 1) :
                execution_log[k].msg # "ERROR")

C22_Witness ==
    /\ pc = "done" /\ result.st = "failure" /\ result.error = "revise"
    /\ rpc = "raised" /\ Len(rcalls) = 2
    /\ i = 1
    /\ execution_log[Len(execution_log)] = LogError("revise")
    /\ execution_log[Len(execution_log) - 1] = Log("Critiques Received", 0)

CallsOfKind(kind) == {k \in 1..Len(rcalls) : rcalls[k].kind = kind}

\* a model call of revise_story returns or raises
RevisionCallEnds == rpc \in {"fallback", "smoothing"} /\ rpc' # rpc

\* C26: one revise_story call runs the patch pass once (one report row per
\* patch, left as it is by the model calls), issues at most one rewrite call
\* and at most one smoothing call, the rewrite first; the reply of the
\* smoothing call is returned as it is, and no model call of revise_story
\* advances the round counters, which move only when a judge call starts.
C26_OnePassOneSmoothing ==
    /\ [](rpc # "idle" =>
            /\ Len(patch_report) = Len(rargs.patches)
            /\ Cardinality(CallsOfKind("rewrite")) <= 1
            /\ Cardinality(CallsOfKind("smoothing")) <= 1
            /\ Len(rcalls) <= 2
            /\ Len(rcalls) = 2 =>
                  rcalls[1].kind = "rewrite" /\ rcalls[2].kind = "smoothing")
    /\ [][/\ RevisionCallEnds =>
                /\ patch_report' = patch_report
                /\ i' = i /\ r' = r
                /\ UNCHANGED judgeVars
          /\ (rpc = "smoothing" /\ rpc' = "returned") =>
                patched_story' = last_reply' /\ rcalls' = rcalls
          /\ (i' # i \/ r' # r) => jresult'.st = "running"
         ]_vars

C26_Witness ==
    /\ pc = "s_revise" /\ rpc = "returned"
    /\ Len(rcalls) = 2
    /\ Len(rargs.patches) = 4 /\ Len(patch_report) = 4
    /\ patch_report[1].applied /\ ~patch_report[2].applied
    /\ patched_story = last_reply
    /\ i = 2

\* the stages that may follow stage s at once
StageAfter(s) ==
    CASE s = "sanitize"   -> {"brainstorm"}
      [] s = "brainstorm" -> {"b_judge"}
      [] s = "b_judge"    -> {"b_revise", "plan"}
      [] s = "b_revise"   -> {"b_judge", "plan"}
      [] s = "plan"       -> {"write"}
      [] s = "write"      -> {"s_judge"}
      [] s = "s_judge"    -> {"s_revise", "audio"}
      [] s = "s_revise"   -> {"s_judge", "audio"}
      [] s = "audio"      -> {"images"}
      [] s = "images"     -> {"done"}
      [] OTHER            -> {}

LogIndices(msg) == {k \in 1..Len(execution_log) : execution_log[k].msg = msg}

\* the entries that announce the stages, in pipeline order
StageEntries ==
    <<"Sanitizing Input", "Brainstorming Ideas", "Brainstorm Judge-Revise Loop",
      "Planning Story", "Writing Draft 1", "Entering Judge-Revise Loop",
      "Creating Audio Experience", "Generating Story Images">>

\* the story loop is over: a verdict passed or the last round was revised
StoryLoopOver ==
    \/ pc = "s_judge" /\ jresult.st = "returned" /\ jresult.verdict.pass
    \/ pc = "s_revise" /\ rpc = "returned" /\ i + 1 = max_iterations

\* C27: the stages follow one another in the order sanitize, brainstorm,
\* brainstorm loop, plan, write, story loop, assets, none skipped and none
\* entered again; a successful run has announced sanitize, brainstorm, plan
\* and write exactly once, in that order; the asset calls start only when the
\* story loop is over and are given the loop's final story.
C27_StageOrder ==
    /\ [][/\ pc' # pc => (pc' \in StageAfter(pc) \/ result'.st = "failure")
          /\ (pc' = "audio" /\ pc # "audio") =>
                /\ StoryLoopOver
                /\ asset_story' = final_story'
                /\ final_story' = story'
                /\ story' = IF pc = "s_judge" THEN story ELSE patched_story
         ]_vars
    /\ [](pc \in {"audio", "images"} =>
            asset_story = final_story /\ final_story = story)
    /\ []((pc = "done" /\ result.st = "success") =>
            /\ result.story_text = final_story
            /\ \A n \in 1..Len(StageEntries) :
                  Cardinality(LogIndices(StageEntries[n])) = 1
            /\ \A n \in 1..(Len(StageEntries) - 1) :
                  \A a \in LogIndices(StageEntries[n]) :
                      \A b \in LogIndices(StageEntries[n + 1]) : a < b)

C27_Witness ==
    /\ pc = "done" /\ result.st = "success"
    /\ r = 2 /\ i = 1
    /\ result.story_text = patched_story
    /\ asset_story = patched_story
    /\ Cardinality(LogIndices("ROUND EVALUATION")) = 2
    /\ Cardinality(LogIndices("Brainstorm Round")) = 3

-----------------------------------------------------------------------------
\* Frame of the story loop (generate, revise_story)

\* generate is inside its judge-revise loop
InStoryLoop == pc \in {"s_judge", "s_revise"}

\* revise_story is executing on behalf of the story loop
Revising == pc = "s_revise" /\ rpc # "idle"

\* C31: throughout the story loop the sanitized request, the brainstorm
\* result and the plan keep the values they had when the loop was entered;
\* every revision is passed exactly that request and that plan, the working
\* story and the patch list of the verdict just returned; a step of the
\* revision changes neither the verdict nor its own arguments.
C31_LoopFrame ==
    /\ [](Revising =>
            /\ rargs.original_request = sanitized_input
            /\ rargs.plan = plan_response
            /\ rargs.current_story = story
            /\ rargs.patches = jresult.verdict.patches)
    /\ [][/\ InStoryLoop =>
                /\ sanitized_input' = sanitized_input
                /\ plan_response' = plan_response
                /\ brainstorm_result' = brainstorm_result
          /\ (Revising /\ pc' = "s_revise") =>
                /\ jresult' = jresult
                /\ rargs' = rargs
                /\ story' = story
         ]_vars

\* a second round's revision is running on a story the first one changed,
\* after a model call of the first revision
C31_Witness ==
    /\ Revising
    /\ i = 1
    /\ rargs.current_story # <<>>
    /\ rargs.plan # rargs.current_story
    /\ Len(rargs.patches) > 0
    /\ rpc = "smoothing"

-----------------------------------------------------------------------------
\* Interview sessions (app.py)

\* the session worker w holds under key k
SessionAt(w, k) == interview_sessions[w][k]

\* the same session once the step is taken
SessionAfter(w, k) == interview_sessions'[w][k]

\* the workers and keys of the sessions held
Held == {wk \in Workers \X SessionIds : SessionAt(wk[1], wk[2]).present}

\* C32: in every state of an interview session current_question_idx is the
\* number of stored question-answer pairs and is at most the number of
\* questions, and the session is completed exactly when current_question_idx
\* equals the number of questions.
C32_IndexAndCompleted ==
    \A wk \in Held :
        LET session_data == SessionAt(wk[1], wk[2])
        IN  /\ session_data.current_question_idx = Len(session_data.qa_pairs)
            /\ session_data.current_question_idx <= Len(session_data.questions)
            /\ session_data.completed <=>
                  (session_data.current_question_idx
                      = Len(session_data.questions))

\* the last request was a submit_answer answered with a 400
AnswerRejected == http.route = "answer" /\ http.status = 400

\* C33: a submit_answer request that is rejected (unknown session, missing
\* audio, empty transcription) leaves every session and the stories as they
\* were; after an empty transcription the session still waits for the same
\* question.
C33_RejectionLeavesSession ==
    [][AnswerRejected' =>
          /\ http'.body \in {"session", "audio", "transcription"}
          /\ interview_sessions' = interview_sessions
          /\ stories' = stories
          /\ http'.body = "transcription" =>
                \E w \in Workers :
                    LET session_data == SessionAfter(w, http'.session_id)
                    IN  /\ session_data.present
                        /\ session_data.current_question_idx
                              < Len(session_data.questions)
                        /\ Len(session_data.qa_pairs)
                              = session_data.current_question_idx
      ]_vars

\* the second answer of a session was rejected for its empty transcription
C33_Witness ==
    /\ AnswerRejected
    /\ http.body = "transcription"
    /\ \E w \in Workers :
          /\ SessionAt(w, http.session_id).current_question_idx = 1
          /\ Len(SessionAt(w, http.session_id).qa_pairs) = 1

\* every question of the session has one pair, in the order of the questions,
\* with a non-empty stripped answer
AllAnswered(session_data) ==
    /\ Len(session_data.qa_pairs) = Len(session_data.questions)
    /\ \A k \in 1..Len(session_data.qa_pairs) :
          /\ session_data.qa_pairs[k].question = session_data.questions[k]
          /\ session_data.qa_pairs[k].answer # <<>>
          /\ session_data.qa_pairs[k].answer
                = StripWs(session_data.qa_pairs[k].answer)

\* the handler of the last request called generator.generate for a session
GeneratedFromSession ==
    http.route = "interview_generate" /\ http.generated # "none"

\* C34: generator.generate is called for a session only when the session is
\* marked completed; a completed session has exactly one pair per question,
\* in question order, each with a non-empty transcription; an accepted answer
\* is stored for the question at the index, one pair per request, and the
\* questions never change.
C34_GenerateAfterCompleted ==
    /\ [](\A wk \in Held :
            SessionAt(wk[1], wk[2]).completed =>
                AllAnswered(SessionAt(wk[1], wk[2])))
    /\ [][/\ GeneratedFromSession' =>
                \E w \in Workers :
                    /\ SessionAt(w, http'.session_id).present
                    /\ SessionAt(w, http'.session_id).completed
          /\ \A wk \in Held :
                LET before == SessionAt(wk[1], wk[2])
                    after == SessionAt(wk[1], wk[2])'
                IN  after.present =>
                      /\ after.questions = before.questions
                      /\ \/ after.qa_pairs = before.qa_pairs
                         \/ /\ Len(before.qa_pairs) < Len(before.questions)
                            /\ Len(after.qa_pairs) = Len(before.qa_pairs) + 1
                            /\ SubSeq(after.qa_pairs, 1, Len(before.qa_pairs))
                                  = before.qa_pairs
                            /\ after.qa_pairs[Len(after.qa_pairs)].question
                                  = before.questions[Len(after.qa_pairs)]
                            /\ http'.route = "answer" /\ http'.status # 400
         ]_vars

\* a story was committed from an interview of two answered questions
C34_Witness ==
    /\ GeneratedFromSession
    /\ http.body = "story"
    /\ Len(stories) = 1
    /\ Len(stories[1].interview_data) = 2
    /\ stories[1].interview_data[1].question
          # stories[1].interview_data[2].question

\* C35: every submit_answer request ends with a documented outcome: 200, or
\* 400 for a missing or invalid session, missing audio or a failed
\* transcription.
C35_DocumentedOutcomes ==
    http.route = "answer" => http.status \in {200, 400}

\* C36: a request to /interview/answer or /interview/generate that carries the
\* id of a session some worker still holds finds the session, whichever
\* worker serves it.
C36_FoundByEveryWorker ==
    [][(/\ http'.route \in {"answer", "interview_generate"}
        /\ \E w \in Workers : <<w, http'.session_id>> \in Held)
          => http'.body # "session"
      ]_vars

-----------------------------------------------------------------------------
\* Story images (storybook.py)

\* the image requests sent for the paragraphs after the first of story s
LaterRequests(s) ==
    {req \in image_requests : req.story = s /\ req.index > 0}

\* the first image of story s has been generated and saved
FirstImageSaved(s) ==
    img[s].first_image_path = PageFile(0) /\ 0 \notin img[s].failed

\* C37: an image request for a later paragraph is sent only when the first
\* paragraph's image has been generated and saved; when the first image
\* fails the run returns the empty list and no later image was requested;
\* otherwise a run that returns gives one entry per paragraph, in paragraph
\* order: the file of the paragraph, or None where its image failed.
C37_FirstImageGates ==
    /\ [][\A s \in ImageRuns :
            LaterRequests(s)' # LaterRequests(s) =>
                FirstImageSaved(s) /\ img[s].st = "rest"
         ]_vars
    /\ [](\A s \in ImageRuns :
            /\ LaterRequests(s) # {} => FirstImageSaved(s)
            /\ img[s].st = "returned" =>
                  IF 0 \in img[s].failed
                  THEN img[s].all_paths = <<>> /\ LaterRequests(s) = {}
                  ELSE /\ Len(img[s].all_paths) = Len(img[s].paragraphs)
                       /\ \A n \in 1..Len(img[s].all_paths) :
                             img[s].all_paths[n] =
                                 IF (n - 1) \in img[s].failed THEN "None"
                                 ELSE PageFile(n - 1))

\* a run over three paragraphs returned with the second image failed, and
\* another run returned the empty list after its first image failed
C37_Witness ==
    /\ img[1].st = "returned"
    /\ img[1].all_paths = <<PageFile(0), "None", PageFile(2)>>
    /\ Cardinality(LaterRequests(1)) = 2
    /\ img[2].st = "returned"
    /\ img[2].paragraphs # <<>>
    /\ img[2].all_paths = <<>>

\* C38: every image request with an index greater than 0 carries the revised
\* prompt captured from the first image of its own story.
C38_OwnRevisedPrompt ==
    \A req \in image_requests :
        req.index > 0 => req.locked = RevisedPrompts[req.story]

====
